---- MODULE Spec2Model ----
(***************************************************************************)
(* Model of networking_ovn/ml2/mech_driver.py (OVNMechanismDriver): the    *)
(* security-group -> ACL compiler, the reconciliation of backend ACLs on   *)
(* port / security-group / security-group-rule events, and the backend     *)
(* transactions that apply them.                                           *)
(*                                                                         *)
(* The policy store (Neutron DB) holds ports and security-group rules; the *)
(* backend (OVN northbound DB) holds logical ports and ACL rows.  Every    *)
(* event handler is one action: the store mutation that triggered it, the  *)
(* handler's compilations, and every backend transaction it submits.       *)
(***************************************************************************)
EXTENDS Integers, Sequences, FiniteSets, TLC

(***************************************************************************)
(* Bounds of the model.                                                    *)
(***************************************************************************)
MaxEvents == 3
MaxFixedIps == 2

(***************************************************************************)
(* The universe of policy objects the events draw from.                    *)
(***************************************************************************)
PortOrder == <<"p1", "p2", "p3">>
PortIds == {PortOrder[i] : i \in 1..Len(PortOrder)}
SgOrder == <<"A", "B">>
SgIds == {SgOrder[i] : i \in 1..Len(SgOrder)}
NoValue == "None"
NetworkId == "net1"
NetOrder == <<"net1", "net2">>
NetIds == {NetOrder[i] : i \in 1..Len(NetOrder)}
AttrNotSpecified == "ATTR_NOT_SPECIFIED"

Subnets ==
  [s4 |-> [id |-> "s4", ip_version |-> 4, cidr |-> "10.0.0.0/24"],
   s6 |-> [id |-> "s6", ip_version |-> 6, cidr |-> "fd00::/64"]]
SubnetIds == DOMAIN Subnets

FixedIpOrder ==
  <<[subnet_id |-> "s4", ip_address |-> "10.0.0.5"],
    [subnet_id |-> "s4", ip_address |-> "10.0.0.6"],
    [subnet_id |-> "s6", ip_address |-> "fd00::5"]>>
FixedIps == {FixedIpOrder[i] : i \in 1..Len(FixedIpOrder)}

\* The security-group rules that may exist in the store, by rule id.
RuleUniverse ==
  [r1 |-> [id |-> "r1", security_group_id |-> "A", direction |-> "ingress",
           ethertype |-> "IPv4", protocol |-> "tcp",
           port_range_min |-> 80, port_range_max |-> 80,
           remote_ip_prefix |-> NoValue, remote_group_id |-> NoValue],
   r2 |-> [id |-> "r2", security_group_id |-> "B", direction |-> "ingress",
           ethertype |-> "IPv4", protocol |-> "tcp",
           port_range_min |-> 80, port_range_max |-> 80,
           remote_ip_prefix |-> NoValue, remote_group_id |-> NoValue],
   r3 |-> [id |-> "r3", security_group_id |-> "B", direction |-> "ingress",
           ethertype |-> "IPv4", protocol |-> NoValue,
           port_range_min |-> 0, port_range_max |-> 0,
           remote_ip_prefix |-> NoValue, remote_group_id |-> "A"],
   r4 |-> [id |-> "r4", security_group_id |-> "A", direction |-> "egress",
           ethertype |-> "IPv6", protocol |-> "udp",
           port_range_min |-> 53, port_range_max |-> 54,
           remote_ip_prefix |-> NoValue, remote_group_id |-> "A"],
   r5 |-> [id |-> "r5", security_group_id |-> "B", direction |-> "ingress",
           ethertype |-> "IPv4", protocol |-> NoValue,
           port_range_min |-> 80, port_range_max |-> 80,
           remote_ip_prefix |-> NoValue, remote_group_id |-> NoValue]]
\* r5 names a port range without a protocol: a rule the API's validation
\* does not let through.
UnvalidatedRuleIds == {"r5"}
RuleIds == DOMAIN RuleUniverse \ UnvalidatedRuleIds
RuleOrder == <<"r1", "r2", "r3", "r4", "r5">>

\* The elements of set S in the order of sequence ord.
OrderSet(S, ord) == SelectSeq(ord, LAMBDA x : x \in S)

Range(s) == {s[i] : i \in 1..Len(s)}

Perms(ord) ==
  {s \in [1..Len(ord) -> Range(ord)] : Range(s) = Range(ord)}

(***************************************************************************)
(* State.                                                                  *)
(*   ports, rules : the policy store.                                      *)
(*   lports, acls : the backend.                                           *)
(*   last         : what the handler of the observed event did.            *)
(*   pre, preLports : the backend before the observed event.               *)
(*   failed       : whether some handler so far did not run to completion. *)
(*   mustDelete   : a port whose create handler failed.                    *)
(*   everCreated  : the port and network ids used so far (ids are never     *)
(*                  reused).                                                *)
(*   networks     : the store's networks.                                   *)
(*   lswitches, localnets : the backend's logical switches and its logical  *)
(*                  ports of type localnet.                                 *)
(*   preNet       : lswitches, localnets and the store's networks before    *)
(*                  the observed event.                                     *)
(*   race         : the handlers running concurrently.                      *)
(*   nevents      : number of events handled.                              *)
(***************************************************************************)
VARIABLES ports, rules, lports, acls, last, pre, preLports, failed, mustDelete,
          everCreated, nevents, race, networks, lswitches, localnets, preNet

vars ==
  <<ports, rules, lports, acls, last, pre, preLports, failed, mustDelete, everCreated,
    nevents, race, networks, lswitches, localnets, preNet>>

NoPort == [live |-> FALSE, security_groups |-> {}, fixed_ips |-> <<>>]

\* A network of the store: its name and its provider attributes.
NoNetwork ==
  [live |-> FALSE, name |-> "", physical_network |-> NoValue,
   segmentation_id |-> NoValue, qos_policy_id |-> NoValue]

\* The network the ports are on: created before any port, without provider
\* attributes.
FirstNetwork ==
  [live |-> TRUE, name |-> "n1", physical_network |-> NoValue,
   segmentation_id |-> NoValue, qos_policy_id |-> NoValue]

\* utils.ovn_name: the backend name of a network's logical switch.
OvnName == [net1 |-> "neutron-net1", net2 |-> "neutron-net2"]

\* Line 208: the name of a network's localnet port.
ProvnetName == [net1 |-> "provnet-net1", net2 |-> "provnet-net2"]

\* int(segid) for the segmentation ids in use.
SegmentationIds == ("0" :> 0) @@ ("100" :> 100)

\* qos_policy_id of a network dictionary that has no such key (the QoS
\* extension adds none); NoValue is the key with value None.
QosAbsent == "absent"

\* The QoS policies of the store and their rules (qos_rule.get_rules); a
\* rule is a bandwidth limit, with 0 for a limit that is not set, or of
\* another type.
QosPolicies ==
  [pol1 |-> << [type |-> "bandwidth_limit", qos_policy_id |-> "pol1",
                max_kbps |-> 1000, max_burst_kbps |-> 100] >>,
   pol2 |-> << [type |-> "dscp_marking", qos_policy_id |-> "pol2",
                max_kbps |-> 0, max_burst_kbps |-> 0],
               [type |-> "bandwidth_limit", qos_policy_id |-> "pol2",
                max_kbps |-> 2000, max_burst_kbps |-> 0] >>]

\* The QoS policy attached to a port itself, None for most.
PortQosPolicy == [p1 |-> NoValue, p2 |-> "pol2", p3 |-> NoValue]

\* str(n) for the rates in use.
RateStr == (100 :> "100") @@ (1000 :> "1000") @@ (2000 :> "2000")

\* No snapshot of the backend's switches and of the store's networks.
NoPreNet == [lswitches |-> {}, localnets |-> {}, networks |-> <<>>]

\* The store as a value handed to the queries below.
Store(ps, rs) == [ports |-> ps, rules |-> rs]

\* A port as the dictionary the handlers receive.
PortDict(st, p) ==
  [id |-> p, network_id |-> NetworkId,
   security_groups |-> st.ports[p].security_groups,
   fixed_ips |-> st.ports[p].fixed_ips]

(***************************************************************************)
(* Policy-store queries.                                                   *)
(***************************************************************************)
\* plugin._get_port_security_group_bindings(filters security_group_id)
GetPortSecurityGroupBindings(st, sg) ==
  OrderSet({p \in PortIds : st.ports[p].live /\ sg \in st.ports[p].security_groups},
           PortOrder)

\* plugin.get_security_group(sg): the group with its rules.
GetSecurityGroup(st, sg) ==
  [id |-> sg,
   security_group_rules |->
     OrderSet({r \in st.rules : RuleUniverse[r].security_group_id = sg}, RuleOrder)]

\* plugin.get_subnet(subnet_id)
GetSubnet(st, s) == Subnets[s]

\* plugin.get_ports(filters id): the live ports among ids.
GetPorts(st, ids) ==
  OrderSet({p \in ids : st.ports[p].live}, PortOrder)

\* plugin.get_security_group_rules(filters remote_group_id): owning groups.
GetReferingSgIds(st, sec_group) ==
  {RuleUniverse[r].security_group_id :
     r \in {x \in st.rules : RuleUniverse[x].remote_group_id = sec_group}}

(***************************************************************************)
(* The context of one reconciliation pass: the three caches, the log of    *)
(* store fetches, the backend as the pass has changed it so far, the log   *)
(* of transactions submitted, and whether the pass is still running.       *)
(*   store : the policy store behind the plugin, as the pass leaves it.     *)
(*   given : the policy store as the framework handed it to the handler.    *)
(*   sg_cache, sg_ports_cache, subnet_cache : the caches the handler owns.  *)
(*   lswitches, localnets : the backend's logical switches and its         *)
(*            logical ports of type localnet.                              *)
(*   port_ord : the order in which a port list is iterated.               *)
(*   refreshed : the groups _refresh_remote_security_group was called for.  *)
(*   status : "ok", "txn_failed" (a commit was rejected), "raised" (the    *)
(*            handler raised before submitting) or "invalid" (an           *)
(*            invalid-input failure was raised).                           *)
(*   failAt : the ordinal of the transaction the backend will reject,      *)
(*            0 for none.                                                  *)
(***************************************************************************)
EmptyCache == [k \in {} |-> NoValue]

\* The store with no ports and no rules.
NoStore == Store([p \in PortIds |-> NoPort], {})

NewContext(ls, as, failAt) ==
  [store |-> NoStore, given |-> NoStore,
   sg_cache |-> EmptyCache, sg_ports_cache |-> EmptyCache,
   subnet_cache |-> EmptyCache, fetched |-> <<>>,
   lports |-> ls, acls |-> as, lswitches |-> {}, localnets |-> {},
   units |-> <<>>, compiled |-> <<>>, compiled_at |-> <<>>,
   refreshed |-> <<>>,
   port_ord |-> PortOrder, status |-> "ok", failAt |-> failAt]

\* The context of a handler that the framework calls with the store st
\* behind self._plugin.
HandlerContext(st, ls, as, failAt) ==
  [NewContext(ls, as, failAt) EXCEPT !.store = st, !.given = st,
                                     !.lswitches = lswitches,
                                     !.localnets = localnets]

\* A value computed in a pass together with the context it leaves.
Ret(c, v) == [c |-> c, v |-> v]

\* A statement "name = <call>": the call is made once and K, the rest of
\* the function, reads its result under the name.
With(v, K(_)) == K(v)

(***************************************************************************)
(* Membership cache layer (networking_ovn.common.acl).                     *)
(***************************************************************************)
GetSubnetFromCache(st, c, subnet_id) ==
  IF subnet_id \in DOMAIN c.subnet_cache
  THEN Ret(c, c.subnet_cache[subnet_id])
  ELSE LET subnet == GetSubnet(st, subnet_id)
       IN Ret([c EXCEPT !.subnet_cache = (subnet_id :> subnet) @@ @,
                        !.fetched = Append(@, <<"subnet", subnet_id>>)],
              subnet)

GetSgPortsFromCache(st, c, sg_id) ==
  IF sg_id \in DOMAIN c.sg_ports_cache
  THEN Ret(c, c.sg_ports_cache[sg_id])
  ELSE LET sg_ports == GetPortSecurityGroupBindings(st, sg_id)
       IN Ret([c EXCEPT !.sg_ports_cache = (sg_id :> sg_ports) @@ @,
                        !.fetched = Append(@, <<"sg_ports", sg_id>>)],
              sg_ports)

GetSgFromCache(st, c, sg_id) ==
  IF sg_id \in DOMAIN c.sg_cache
  THEN Ret(c, c.sg_cache[sg_id])
  ELSE LET sg == GetSecurityGroup(st, sg_id)
       IN Ret([c EXCEPT !.sg_cache = (sg_id :> sg) @@ @,
                        !.fetched = Append(@, <<"sg", sg_id>>)],
              sg)

(***************************************************************************)
(* Match-expression pieces (networking_ovn.common.acl).  A match is the    *)
(* sequence of its tokens; pieces are joined by concatenation as the code  *)
(* joins the strings.                                                      *)
(***************************************************************************)
AclDirection(r, port) ==
  IF r.direction = "ingress"
  THEN [match |-> <<"outport", "==", port.id>>, remote_portdir |-> "inport"]
  ELSE [match |-> <<"inport", "==", port.id>>, remote_portdir |-> "outport"]

AclEthertype(r) ==
  IF r.ethertype = "IPv4"
  THEN [match |-> <<"&&", "ip4">>, ip_version |-> "ip4", icmp |-> "icmp4"]
  ELSE IF r.ethertype = "IPv6"
  THEN [match |-> <<"&&", "ip6">>, ip_version |-> "ip6", icmp |-> "icmp6"]
  ELSE [match |-> <<>>, ip_version |-> NoValue, icmp |-> NoValue]

SrcOrDst(r) == IF r.direction = "ingress" THEN "src" ELSE "dst"

AclRemoteIpPrefix(r, ip_version) ==
  IF r.remote_ip_prefix = NoValue
  THEN <<>>
  ELSE <<"&&", ip_version, SrcOrDst(r), "==", r.remote_ip_prefix>>

AclProtocolAndPorts(r, icmp) ==
  LET protocol == IF r.protocol \in {"tcp", "udp"} THEN r.protocol
                  ELSE IF r.protocol = "icmp" THEN icmp
                  ELSE NoValue
      port_match == IF r.protocol = "icmp" THEN "type" ELSE "dst"
      min_port == r.port_range_min
      max_port == r.port_range_max
  IN IF protocol = NoValue
     THEN <<>>
     ELSE <<"&&", protocol>> \o
          (IF min_port # 0 /\ min_port = max_port /\ min_port # -1
           THEN <<"&&", protocol, port_match, "==", ToString(min_port)>>
           ELSE (IF min_port # 0 /\ min_port # -1
                 THEN <<"&&", protocol, port_match, ">=", ToString(min_port)>>
                 ELSE <<>>) \o
                (IF max_port # 0 /\ max_port # -1
                 THEN <<"&&", protocol, port_match, "<=", ToString(max_port)>>
                 ELSE <<>>))

\* The compiler's internal-consistency check of a rule: a port range needs
\* a protocol, and the protocol must be one the compiler knows.
RuleIsConsistent(r) ==
  /\ r.protocol \in {NoValue, "tcp", "udp", "icmp"}
  /\ r.protocol = NoValue => r.port_range_min = 0 /\ r.port_range_max = 0

IpVersionNumber(ip_version) == IF ip_version = "ip4" THEN 4 ELSE 6

\* The fixed IPs of the given ports, port by port.
RECURSIVE FixedIpsOf(_, _)
FixedIpsOf(st, port_ids) ==
  IF port_ids = <<>> THEN <<>>
  ELSE st.ports[Head(port_ids)].fixed_ips \o FixedIpsOf(st, Tail(port_ids))

\* One "<version>.<src|dst> == <address> || " term per fixed IP whose subnet
\* has the requested IP version.
RECURSIVE RemoteIpTerms(_, _, _, _, _)
RemoteIpTerms(st, c, fixed_ips, ip_version, src_or_dst) ==
  IF fixed_ips = <<>> THEN Ret(c, <<>>)
  ELSE With(GetSubnetFromCache(st, c, Head(fixed_ips).subnet_id), LAMBDA sn :
       With(RemoteIpTerms(st, sn.c, Tail(fixed_ips), ip_version, src_or_dst),
            LAMBDA rest :
         Ret(rest.c,
             (IF sn.v.ip_version = IpVersionNumber(ip_version)
              THEN <<ip_version, src_or_dst, "==", Head(fixed_ips).ip_address, "||">>
              ELSE <<>>) \o rest.v)))

AclRemoteMatchIp(st, c, sg_ports, ip_version, src_or_dst) ==
  With(RemoteIpTerms(st, c, FixedIpsOf(st, GetPorts(st, Range(sg_ports))),
                     ip_version, src_or_dst), LAMBDA terms :
    IF terms.v = <<>>
    THEN Ret(terms.c, <<>>)
    ELSE Ret(terms.c,
             <<"&&", "(">> \o SubSeq(terms.v, 1, Len(terms.v) - 1) \o <<")">>))

\* The ACL row of one rule on one port.
AddSgRuleAcl(port, r, match) ==
  [lswitch |-> port.network_id, lport |-> port.id,
   priority |-> 1002, action |-> "allow-related",
   direction |-> IF r.direction = "ingress" THEN "to-lport" ELSE "from-lport",
   match |-> match]

AddAclDhcp(port, subnet) ==
  << [lswitch |-> port.network_id, lport |-> port.id,
      priority |-> 1002, action |-> "allow",
      direction |-> "to-lport",
      match |-> <<"outport", "==", port.id, "&&", "ip4", "&&", "ip4", "src",
                  "==", subnet.cidr, "&&", "udp", "&&", "udp", "src", "==",
                  "67", "&&", "udp", "dst", "==", "68">>] >>

DropAllIpTrafficForPort(port) ==
  << [lswitch |-> port.network_id, lport |-> port.id,
      priority |-> 1001, action |-> "drop",
      direction |-> "from-lport",
      match |-> <<"inport", "==", port.id, "&&", "ip">>],
     [lswitch |-> port.network_id, lport |-> port.id,
      priority |-> 1001, action |-> "drop",
      direction |-> "to-lport",
      match |-> <<"outport", "==", port.id, "&&", "ip">>] >>

(***************************************************************************)
(* ACL compiler (mech_driver.py).                                          *)
(***************************************************************************)
\* Mutant of AclRemoteGroupId: the port being compiled is not excluded from
\* the members of the remote group.
AclRemoteGroupIdKeepSelf(st, c, r, port, ip_version) ==
  IF r.remote_group_id = NoValue
  THEN [c |-> c, match |-> <<>>, empty |-> FALSE]
  ELSE With(GetSgPortsFromCache(st, c, r.remote_group_id), LAMBDA got :
         IF got.v = <<>>
         THEN [c |-> got.c, match |-> <<>>, empty |-> TRUE]
         ELSE With(AclRemoteMatchIp(st, got.c, got.v, ip_version, SrcOrDst(r)),
                   LAMBDA m : [c |-> m.c, match |-> m.v, empty |-> FALSE]))

\* Mutant of AclRemoteGroupId: the port being compiled is removed from the
\* cached member list itself instead of from a copy of it.
AclRemoteGroupIdPopSelf(st, c, r, port, ip_version) ==
  IF r.remote_group_id = NoValue
  THEN [c |-> c, match |-> <<>>, empty |-> FALSE]
  ELSE With(GetSgPortsFromCache(st, c, r.remote_group_id), LAMBDA got :
         LET sg_ports == SelectSeq(got.v, LAMBDA p : p # port.id)
             c1 == [got.c EXCEPT !.sg_ports_cache[r.remote_group_id] = sg_ports]
         IN IF sg_ports = <<>>
            THEN [c |-> c1, match |-> <<>>, empty |-> TRUE]
            ELSE With(AclRemoteMatchIp(st, c1, sg_ports, ip_version, SrcOrDst(r)),
                      LAMBDA m : [c |-> m.c, match |-> m.v, empty |-> FALSE]))

\* _acl_remote_group_id: the remote-group piece of the match, and whether
\* the rule is void because the group has no other port.
AclRemoteGroupId(st, c, r, port, ip_version) ==
  IF r.remote_group_id = NoValue
  THEN [c |-> c, match |-> <<>>, empty |-> FALSE]
  ELSE With(GetSgPortsFromCache(st, c, r.remote_group_id), LAMBDA got :
         LET sg_ports == SelectSeq(got.v, LAMBDA p : p # port.id)
         IN IF sg_ports = <<>>
            THEN [c |-> got.c, match |-> <<>>, empty |-> TRUE]
            ELSE With(AclRemoteMatchIp(st, got.c, sg_ports, ip_version, SrcOrDst(r)),
                      LAMBDA m : [c |-> m.c, match |-> m.v, empty |-> FALSE]))

\* _add_sg_rule_acl_for_port: <<acl>>, or <<>> for None.
AddSgRuleAclForPort(st, c, port, r) ==
  LET dir == AclDirection(r, port)
      eth == AclEthertype(r)
  IN With(AclRemoteGroupId(st, c, r, port, eth.ip_version), LAMBDA grp :
       IF grp.empty
       THEN Ret(grp.c, <<>>)
       ELSE IF ~RuleIsConsistent(r)
       THEN Ret([grp.c EXCEPT !.status = "invalid"], <<>>)
       ELSE Ret(grp.c,
                <<AddSgRuleAcl(port, r,
                               dir.match \o eth.match
                                 \o AclRemoteIpPrefix(r, eth.ip_version)
                                 \o grp.match
                                 \o AclProtocolAndPorts(r, eth.icmp))>>))

\* Mutant of AddDhcpAcls: the DHCP entry is emitted for the subnet of every
\* fixed IP, whatever its IP version.
RECURSIVE AddDhcpAclsAnyVersion(_, _, _, _)
AddDhcpAclsAnyVersion(st, c, port, fixed_ips) ==
  IF fixed_ips = <<>> THEN Ret(c, <<>>)
  ELSE With(GetSubnetFromCache(st, c, Head(fixed_ips).subnet_id), LAMBDA sn :
       With(AddDhcpAclsAnyVersion(st, sn.c, port, Tail(fixed_ips)), LAMBDA rest :
         Ret(rest.c, AddAclDhcp(port, sn.v) \o rest.v)))

\* _add_acls, lines 534-541: the DHCP entries of the port's fixed IPs.
RECURSIVE AddDhcpAcls(_, _, _, _)
AddDhcpAcls(st, c, port, fixed_ips) ==
  IF fixed_ips = <<>> THEN Ret(c, <<>>)
  ELSE With(GetSubnetFromCache(st, c, Head(fixed_ips).subnet_id), LAMBDA sn :
       With(AddDhcpAcls(st, sn.c, port, Tail(fixed_ips)), LAMBDA rest :
         IF sn.v.ip_version # 4
         THEN rest
         ELSE Ret(rest.c, AddAclDhcp(port, sn.v) \o rest.v)))

\* _add_acls, lines 550-556: the rules of one group, appended to acl_list.
RECURSIVE AddRuleAcls(_, _, _, _, _)
AddRuleAcls(st, c, port, rule_ids, acl_list) ==
  IF rule_ids = <<>> \/ c.status # "ok" THEN Ret(c, acl_list)
  ELSE With(AddSgRuleAclForPort(st, c, port, RuleUniverse[Head(rule_ids)]),
            LAMBDA a :
         AddRuleAcls(st, a.c, port, Tail(rule_ids),
                     IF a.v # <<>> /\ a.v[1] \notin Range(acl_list)
                     THEN Append(acl_list, a.v[1])
                     ELSE acl_list))

\* _add_acls, lines 545-556: the groups of the port.
RECURSIVE AddGroupAcls(_, _, _, _, _)
AddGroupAcls(st, c, port, sg_ids, acl_list) ==
  IF sg_ids = <<>> \/ c.status # "ok" THEN Ret(c, acl_list)
  ELSE With(GetSgFromCache(st, c, Head(sg_ids)), LAMBDA sg :
       With(AddRuleAcls(st, sg.c, port, sg.v.security_group_rules, acl_list),
            LAMBDA a : AddGroupAcls(st, a.c, port, Tail(sg_ids), a.v)))

\* Mutant of AddAcls: the drop-all entries are emitted only for a port that
\* has a fixed IP.
AddAclsDropIfAddressed(st, c, port) ==
  LET sec_groups == OrderSet(port.security_groups, SgOrder)
  IN IF sec_groups = <<>>
     THEN Ret(c, <<>>)
     ELSE With(AddDhcpAcls(st, c, port, port.fixed_ips), LAMBDA dhcp :
            AddGroupAcls(st, dhcp.c, port, sec_groups,
                         (IF port.fixed_ips = <<>> THEN <<>>
                          ELSE DropAllIpTrafficForPort(port)) \o dhcp.v))

\* Mutant of AddAcls: no early return for a port without security groups.
AddAclsNoEarlyReturn(st, c, port) ==
  With(AddDhcpAcls(st, c, port, port.fixed_ips), LAMBDA dhcp :
    AddGroupAcls(st, dhcp.c, port, OrderSet(port.security_groups, SgOrder),
                 DropAllIpTrafficForPort(port) \o dhcp.v))

\* _add_acls: the complete ACL list of a port.
AddAcls(st, c, port) ==
  LET sec_groups == OrderSet(port.security_groups, SgOrder)
  IN IF sec_groups = <<>>
     THEN Ret(c, <<>>)
     ELSE With(AddDhcpAcls(st, c, port, port.fixed_ips), LAMBDA dhcp :
            AddGroupAcls(st, dhcp.c, port, sec_groups,
                         DropAllIpTrafficForPort(port) \o dhcp.v))

\* A call of _add_acls within a pass, noted in the pass's log of compiles
\* when it returns, with the number of store fetches made until then.
CompilePort(st, c, port) ==
  With(AddAcls(st, c, port), LAMBDA a :
    Ret([a.c EXCEPT !.compiled = Append(@, port.id),
                    !.compiled_at = Append(@, Len(a.c.fetched))], a.v))

(***************************************************************************)
(* Backend transactions.  A transaction is a sequence of operations; the   *)
(* backend applies all of them in order, or none.                          *)
(***************************************************************************)
\* An operation of a transaction: its name, the logical port it names and
\* the ACL rows it carries.
Op(name, lport, rows) == [op |-> name, lport |-> lport, acls |-> rows]

\* The operations on logical switches, and create_lport for a port of
\* type localnet.
CreateLswitchOp(lswitch_name, name) ==
  [op |-> "create_lswitch", lswitch |-> lswitch_name, external_ids |-> name]

DeleteLswitchOp(lswitch_name, if_exists) ==
  [op |-> "delete_lswitch", lswitch |-> lswitch_name, if_exists |-> if_exists]

CreateLocalnetOp(lport_name, lswitch_name, tag, network_name) ==
  [op |-> "create_lport", lport |-> lport_name, lswitch |-> lswitch_name,
   type |-> "localnet", tag |-> tag, network_name |-> network_name]

\* The backend after one operation.  A command that cannot run sets error.
ApplyOp(be, o) ==
  CASE o.op = "create_lport" ->
         IF "type" \in DOMAIN o
         THEN IF \E sw \in be.lswitches : sw.name = o.lswitch
              THEN [be EXCEPT !.localnets =
                      @ \cup {[name |-> o.lport, lswitch |-> o.lswitch,
                               type |-> o.type, tag |-> o.tag,
                               network_name |-> o.network_name]}]
              ELSE [be EXCEPT !.error = TRUE]
         ELSE [be EXCEPT !.lports = @ \cup {o.lport}]
    [] o.op = "set_lport"    -> be
    [] o.op = "delete_lport" -> [be EXCEPT !.lports = @ \ {o.lport}]
    [] o.op = "add_acl"      -> [be EXCEPT !.acls = @ \cup o.acls]
    [] o.op = "del_acl"      -> [be EXCEPT !.acls = @ \ o.acls]
    [] o.op = "delete_acl"   -> [be EXCEPT !.acls = {x \in @ : x.lport # o.lport}]
    [] o.op = "set_lswitch_ext_id" ->
         [be EXCEPT !.lswitches =
            {IF sw.name = o.lswitch
             THEN [sw EXCEPT !.external_ids = o.external_ids] ELSE sw :
               sw \in @}]
    [] o.op = "create_lswitch" ->
         [be EXCEPT !.lswitches =
            @ \cup {[name |-> o.lswitch, external_ids |-> o.external_ids]}]
    [] o.op = "delete_lswitch" ->
         IF \E sw \in be.lswitches : sw.name = o.lswitch
         THEN [be EXCEPT
                 !.lswitches = {sw \in @ : sw.name # o.lswitch},
                 !.localnets = {lp \in @ : lp.lswitch # o.lswitch},
                 !.lports = IF o.lswitch = OvnName[NetworkId] THEN {} ELSE @,
                 !.acls = IF o.lswitch = OvnName[NetworkId] THEN {} ELSE @]
         ELSE IF o.if_exists THEN be
         ELSE [be EXCEPT !.error = TRUE]

RECURSIVE ApplyOps(_, _)
ApplyOps(be, ops) ==
  IF ops = <<>> THEN be ELSE ApplyOps(ApplyOp(be, Head(ops)), Tail(ops))

\* One add_acl operation per entry of a compiled list.
AddAclOps(acl_list) ==
  [i \in 1..Len(acl_list) |-> Op("add_acl", acl_list[i].lport, {acl_list[i]})]

\* Leaving a transaction scope: the commit of ops, which the backend rejects
\* when this is the transaction numbered failAt.  The unit notes in "at" how
\* many compiles the pass had completed when the transaction was submitted.
Commit(c, unit, ops) ==
  IF c.status # "ok" THEN c
  ELSE IF Len(c.units) + 1 = c.failAt
  THEN [c EXCEPT !.status = "txn_failed",
                 !.units = Append(@, [unit EXCEPT !.ops = ops,
                                                  !.at = Len(c.compiled)])]
  ELSE LET be == ApplyOps([lports |-> c.lports, acls |-> c.acls,
                           lswitches |-> c.lswitches,
                           localnets |-> c.localnets, error |-> FALSE], ops)
       IN IF be.error
          THEN [c EXCEPT !.status = "raised",
                         !.units = Append(@, [unit EXCEPT !.ops = ops,
                                                          !.at = Len(c.compiled)])]
          ELSE [c EXCEPT !.lports = be.lports, !.acls = be.acls,
                         !.lswitches = be.lswitches,
                         !.localnets = be.localnets,
                         !.units = Append(@, [unit EXCEPT !.ops = ops,
                                                          !.at = Len(c.compiled),
                                                          !.committed = TRUE])]

Unit(kind, sg, port_list, need_compare, is_add_acl) ==
  [kind |-> kind, sg |-> sg, ports |-> port_list,
   need_compare |-> need_compare, is_add_acl |-> is_add_acl,
   ops |-> <<>>, at |-> 0, committed |-> FALSE]

\* update_acls with need_compare: per port, remove the rows that are not in
\* the new list and add the entries that are not rows yet.
RECURSIVE CompareOps(_, _, _)
CompareOps(as, port_list, new) ==
  IF port_list = <<>> THEN <<>>
  ELSE LET p == Head(port_list)
           old == {x \in as : x.lport = p}
           stale == old \ Range(new[p])
           adds == SelectSeq(new[p], LAMBDA x : x \notin old)
       IN (IF stale = {} THEN <<>> ELSE << Op("del_acl", p, stale) >>)
            \o AddAclOps(adds) \o CompareOps(as, Tail(port_list), new)

\* update_acls without compare: add, or remove, the one ACL given per port.
RECURSIVE TargetedOps(_, _, _)
TargetedOps(port_list, new, is_add_acl) ==
  IF port_list = <<>> THEN <<>>
  ELSE LET p == Head(port_list)
       IN << Op(IF is_add_acl THEN "add_acl" ELSE "del_acl", p, {new[p][1]}) >>
            \o TargetedOps(Tail(port_list), new, is_add_acl)

UpdateAcls(c, unit, port_list, new, need_compare, is_add_acl) ==
  Commit(c, unit,
         IF need_compare
         THEN CompareOps(c.acls, port_list, new)
         ELSE TargetedOps(port_list, new, is_add_acl))

(***************************************************************************)
(* Reconciliation coordinator (mech_driver.py).                            *)
(***************************************************************************)
\* Mutant of HandBack: the caches handed in are cleared.
HandBackClear(passed, local) == EmptyCache

\* "cache = cache or {}": an empty cache handed in is replaced by a fresh
\* one that the caller never sees; a non-empty one is shared.
HandBack(passed, local) == IF DOMAIN passed = {} THEN passed ELSE local

\* Lines 619-625: the ACL of the one rule for each port.  acl.pop raises
\* when the compiler returned None.
RECURSIVE RuleAclsForPorts(_, _, _, _, _)
RuleAclsForPorts(st, c, port_list, r, new) ==
  IF port_list = <<>> THEN Ret(c, new)
  ELSE With(AddSgRuleAclForPort(st, c, PortDict(st, Head(port_list)), r),
            LAMBDA a :
         IF a.c.status # "ok"
         THEN Ret(a.c, new)
         ELSE IF a.v = <<>>
         THEN Ret([a.c EXCEPT !.status = "raised"], new)
         ELSE RuleAclsForPorts(st, a.c, Tail(port_list), r,
                               (Head(port_list) :> a.v) @@ new))

\* Lines 627-633: the complete ACL list of each port.
RECURSIVE AllAclsForPorts(_, _, _, _)
AllAclsForPorts(st, c, port_list, new) ==
  IF port_list = <<>> \/ c.status # "ok" THEN Ret(c, new)
  ELSE With(CompilePort(st, c, PortDict(st, Head(port_list))), LAMBDA a :
         AllAclsForPorts(st, a.c, Tail(port_list),
                         (Head(port_list) :> a.v) @@ new))

\* Mutant of AclNewValues: the ports to leave out are not left out.
AclNewValuesNoExclude(st, c, security_group_id, exclude_ports, rule) ==
  With(GetSgPortsFromCache(st, c, security_group_id), LAMBDA got :
  LET port_list == OrderSet(Range(GetPorts(st, Range(got.v))), c.port_ord)
  IN With(IF rule # <<>>
          THEN RuleAclsForPorts(st, got.c, port_list, rule[1], EmptyCache)
          ELSE AllAclsForPorts(st, got.c, port_list, EmptyCache), LAMBDA new :
       Ret(new.c, [port_list |-> port_list, dict |-> new.v])))

\* _update_acls_for_security_group, lines 596-633: the group's ports and
\* their newly compiled ACLs.  rule is <<>> for None, else <<r>>.
AclNewValues(st, c, security_group_id, exclude_ports, rule) ==
  With(GetSgPortsFromCache(st, c, security_group_id), LAMBDA got :
  LET port_list == OrderSet(Range(GetPorts(st, Range(got.v) \ exclude_ports)),
                            c.port_ord)
  IN With(IF rule # <<>>
          THEN RuleAclsForPorts(st, got.c, port_list, rule[1], EmptyCache)
          ELSE AllAclsForPorts(st, got.c, port_list, EmptyCache), LAMBDA new :
       Ret(new.c, [port_list |-> port_list, dict |-> new.v])))

\* Mutant of ExecuteUpdateAcls: the handler of a rule deletion removes the
\* rule from the store itself.
ExecuteUpdateAclsDropRule(c, security_group_id, vals, rule, is_add_acl) ==
  IF c.status # "ok" THEN c
  ELSE [UpdateAcls(c,
                   Unit("update_acls", security_group_id, vals.port_list,
                        rule = <<>>, is_add_acl),
                   vals.port_list, vals.dict, rule = <<>>, is_add_acl)
          EXCEPT !.store.rules = IF rule # <<>> /\ ~is_add_acl
                                 THEN @ \ {rule[1].id} ELSE @]

\* _update_acls_for_security_group, lines 635-639: the update_acls command
\* is executed on the backend as it is at that moment.
ExecuteUpdateAcls(c, security_group_id, vals, rule, is_add_acl) ==
  IF c.status # "ok" THEN c
  ELSE UpdateAcls(c,
                  Unit("update_acls", security_group_id, vals.port_list,
                       rule = <<>>, is_add_acl),
                  vals.port_list, vals.dict, rule = <<>>, is_add_acl)

\* _update_acls_for_security_group.  rule is <<>> for None, else <<r>>.
UpdateAclsForSecurityGroup(st, c, security_group_id, exclude_ports, rule, is_add_acl) ==
  IF c.status # "ok" THEN c
  ELSE
  With(AclNewValues(st, c, security_group_id, exclude_ports, rule), LAMBDA vals :
  With(ExecuteUpdateAcls(vals.c, security_group_id, vals.v, rule, is_add_acl),
       LAMBDA done :
       [done EXCEPT !.sg_cache = HandBack(c.sg_cache, @),
                    !.sg_ports_cache = HandBack(c.sg_ports_cache, @),
                    !.subnet_cache = HandBack(c.subnet_cache, @)]))

\* Mutant of RefreshGroups: the loop is left after the first referencing
\* group.
RefreshGroupsFirstOnly(st, c, sg_ids, exclude_ports) ==
  IF sg_ids = <<>> THEN c
  ELSE UpdateAclsForSecurityGroup(st, c, Head(sg_ids), exclude_ports, <<>>, TRUE)

\* Mutant of RefreshGroups: a group whose transaction the backend rejected
\* is skipped and the loop goes on with the next group.
RECURSIVE RefreshGroupsContinue(_, _, _, _)
RefreshGroupsContinue(st, c, sg_ids, exclude_ports) ==
  IF sg_ids = <<>> THEN c
  ELSE With(UpdateAclsForSecurityGroup(st, c, Head(sg_ids), exclude_ports,
                                       <<>>, TRUE), LAMBDA c1 :
         RefreshGroupsContinue(
           st, [c1 EXCEPT !.status = IF @ = "txn_failed" THEN "ok" ELSE @],
           Tail(sg_ids), exclude_ports))

\* Lines 573-579: one full recompute per referencing group.
RECURSIVE RefreshGroups(_, _, _, _)
RefreshGroups(st, c, sg_ids, exclude_ports) ==
  IF sg_ids = <<>> THEN c
  ELSE RefreshGroups(st,
                     UpdateAclsForSecurityGroup(st, c, Head(sg_ids),
                                                exclude_ports, <<>>, TRUE),
                     Tail(sg_ids), exclude_ports)

\* Mutant of RefreshRemoteSecurityGroup: the changed group itself is
\* recomputed instead of the groups whose rules name it.
RefreshRemoteSecurityGroupSelf(st, c, sec_group, exclude_ports, ord) ==
  RefreshGroups(st, c, <<sec_group>>, exclude_ports)

\* _refresh_remote_security_group.  ord is the iteration order of the set.
RefreshRemoteSecurityGroup(st, c, sec_group, exclude_ports, ord) ==
  RefreshGroups(st, c, OrderSet(GetReferingSgIds(st, sec_group), ord), exclude_ports)

\* A loop "for sg_id in ...: self._refresh_remote_security_group(...)".
RECURSIVE RefreshEach(_, _, _, _, _)
RefreshEach(st, c, sg_ids, exclude_ports, ord) ==
  IF sg_ids = <<>> \/ c.status # "ok" THEN c
  ELSE RefreshEach(st,
                   RefreshRemoteSecurityGroup(
                     st, [c EXCEPT !.refreshed = Append(@, Head(sg_ids))],
                     Head(sg_ids), exclude_ports, ord),
                   Tail(sg_ids), exclude_ports, ord)

\* sg_callback: rule is <<>> for a security-group update.
SgCallback(st, c, sg_id, rule, is_add_acl) ==
  UpdateAclsForSecurityGroup(st, c, sg_id, {}, rule, is_add_acl)

(***************************************************************************)
(* Port lifecycle (mech_driver.py).                                        *)
(***************************************************************************)
\* Mutant of CreatePortTxn: the logical port is created by a command of its
\* own, outside the transaction that adds the ACLs.
CreatePortTxnSplit(c, port, acls_new) ==
  Commit([c EXCEPT !.lports = @ \cup {port.id}],
         Unit("create_port", NoValue, <<port.id>>, FALSE, TRUE),
         AddAclOps(acls_new))

\* Mutant of CreatePortTxn: a transaction the backend rejected is submitted
\* once more.
CreatePortTxnRetry(c, port, acls_new) ==
  With(Commit(c, Unit("create_port", NoValue, <<port.id>>, FALSE, TRUE),
              << Op("create_lport", port.id, {}) >> \o AddAclOps(acls_new)),
       LAMBDA c1 :
         IF c1.status = "txn_failed"
         THEN Commit([c1 EXCEPT !.status = "ok"],
                     Unit("create_port", NoValue, <<port.id>>, FALSE, TRUE),
                     << Op("create_lport", port.id, {}) >> \o AddAclOps(acls_new))
         ELSE c1)

\* create_port_in_ovn, lines 649-670: the port's own transaction.
CreatePortTxn(c, port, acls_new) ==
  Commit(c, Unit("create_port", NoValue, <<port.id>>, FALSE, TRUE),
         << Op("create_lport", port.id, {}) >> \o AddAclOps(acls_new))

\* Mutant of CreatePortInOvn: no cascading refresh after the transaction.
CreatePortInOvnNoCascade(st, c, port, ord) ==
  With(CompilePort(st, c, port), LAMBDA a : CreatePortTxn(a.c, port, a.v))

\* create_port_in_ovn
CreatePortInOvn(st, c, port, ord) ==
  With(CompilePort(st, c, port), LAMBDA a :
  With(CreatePortTxn(a.c, port, a.v), LAMBDA c1 :
    IF Len(port.fixed_ips) # 0
    THEN RefreshEach(st, c1, OrderSet(port.security_groups, ord), {port.id}, ord)
    ELSE c1))

\* Mutant of UpdatePortTxn: the port's prior ACLs are not deleted before the
\* freshly compiled ones are added.
UpdatePortTxnNoDelete(c, port, acls_new) ==
  Commit(c, Unit("update_port", NoValue, <<port.id>>, FALSE, TRUE),
         << Op("set_lport", port.id, {}) >> \o AddAclOps(acls_new))

\* _update_port_in_ovn, lines 727-748: the port's own transaction.
UpdatePortTxn(c, port, acls_new) ==
  Commit(c, Unit("update_port", NoValue, <<port.id>>, FALSE, TRUE),
         << Op("set_lport", port.id, {}), Op("delete_acl", port.id, {}) >>
           \o AddAclOps(acls_new))

\* Mutant of UpdatePortInOvn: the groups the port remains in are refreshed
\* whether or not its fixed IPs changed.
UpdatePortInOvnAlwaysUnchanged(st, c, original_port, port, ord) ==
  LET old_sg_ids == original_port.security_groups
      new_sg_ids == port.security_groups
  IN With(CompilePort(st, c, port), LAMBDA a :
     With(UpdatePortTxn(a.c, port, a.v), LAMBDA c1 :
       IF Len(port.fixed_ips) = 0 /\ Len(original_port.fixed_ips) = 0
       THEN c1
       ELSE With(RefreshEach(st, c1,
                             OrderSet((new_sg_ids \ old_sg_ids)
                                        \cup (old_sg_ids \ new_sg_ids), ord),
                             {port.id}, ord), LAMBDA c2 :
              RefreshEach(st, c2, OrderSet(new_sg_ids \cap old_sg_ids, ord),
                          {port.id}, ord))))

\* Mutant of UpdatePortInOvn: the transaction that resets the port is
\* submitted before the port's ACLs are compiled, and the compiled ACLs are
\* added by a second transaction.
UpdatePortInOvnSubmitFirst(st, c, original_port, port, ord) ==
  With(UpdatePortTxn(c, port, <<>>), LAMBDA c0 :
  With(CompilePort(st, c0, port), LAMBDA a :
  With(IF c0.status # "ok" THEN a.c
       ELSE Commit(a.c, Unit("update_port", NoValue, <<port.id>>, FALSE, TRUE),
                   AddAclOps(a.v)), LAMBDA c1 :
    IF Len(port.fixed_ips) = 0 /\ Len(original_port.fixed_ips) = 0
    THEN c1
    ELSE With(RefreshEach(st, c1,
                          OrderSet((port.security_groups
                                      \ original_port.security_groups)
                                    \cup (original_port.security_groups
                                            \ port.security_groups), ord),
                          {port.id}, ord), LAMBDA c2 :
           IF original_port.fixed_ips # port.fixed_ips
           THEN RefreshEach(st, c2,
                            OrderSet(port.security_groups
                                       \cap original_port.security_groups, ord),
                            {port.id}, ord)
           ELSE c2))))

\* _update_port_in_ovn
UpdatePortInOvn(st, c, original_port, port, ord) ==
  LET old_sg_ids == original_port.security_groups
      new_sg_ids == port.security_groups
      detached_sg_ids == old_sg_ids \ new_sg_ids
      attached_sg_ids == new_sg_ids \ old_sg_ids
  IN With(CompilePort(st, c, port), LAMBDA a :
     With(UpdatePortTxn(a.c, port, a.v), LAMBDA c1 :
       IF Len(port.fixed_ips) = 0 /\ Len(original_port.fixed_ips) = 0
       THEN c1
       ELSE With(RefreshEach(st, c1,
                             OrderSet(attached_sg_ids \cup detached_sg_ids, ord),
                             {port.id}, ord), LAMBDA c2 :
              IF original_port.fixed_ips # port.fixed_ips
              THEN RefreshEach(st, c2, OrderSet(new_sg_ids \cap old_sg_ids, ord),
                               {port.id}, ord)
              ELSE c2)))

\* delete_port_postcommit, lines 792-796: the port's own transaction.
DeletePortTxn(c, port) ==
  Commit(c, Unit("delete_port", NoValue, <<port.id>>, FALSE, FALSE),
         << Op("delete_lport", port.id, {}), Op("delete_acl", port.id, {}) >>)

\* Mutant of DeletePortPostcommit: no cascading refresh after the port's
\* transaction.
DeletePortPostcommitNoCascade(st, c, port, ord) ==
  DeletePortTxn(c, port)

\* delete_port_postcommit
DeletePortPostcommit(st, c, port, ord) ==
  With(DeletePortTxn(c, port), LAMBDA c1 :
    IF Len(port.fixed_ips) # 0
    THEN RefreshEach(st, c1, OrderSet(port.security_groups, ord), {}, ord)
    ELSE c1)

(***************************************************************************)
(* Network lifecycle (mech_driver.py).                                     *)
(***************************************************************************)
\* A network as the framework hands it to the driver.
NetworkDict(n, net) ==
  [id |-> n, name |-> net.name, physical_network |-> net.physical_network,
   segmentation_id |-> net.segmentation_id,
   qos_policy_id |-> net.qos_policy_id]

\* The network attributes an API request may give.
NetworkInputs ==
  {[live |-> TRUE, name |-> "n2", physical_network |-> physnet,
    segmentation_id |-> segid, qos_policy_id |-> qos] :
     physnet \in {AttrNotSpecified, NoValue, "physnet1"},
     segid \in {AttrNotSpecified, NoValue, "0", "100"},
     qos \in {QosAbsent, NoValue}}

\* What an update request may make of network net: a new name, another QoS
\* policy or none.  The provider attributes stay, and so does whether the
\* network's dictionaries carry a qos_policy_id key at all.
NetworkUpdates(net) ==
  {[net EXCEPT !.name = name, !.qos_policy_id = qos] :
     name \in {net.name, "n3"},
     qos \in IF net.qos_policy_id = QosAbsent THEN {QosAbsent}
             ELSE {NoValue, "pol1", "pol2"}}

\* _get_attribute
GetAttribute(res) == IF res = AttrNotSpecified THEN NoValue ELSE res

\* Mutant of CreateNetworkInOvn: the localnet port is created in a
\* transaction of its own, after the one that creates the switch.
CreateNetworkInOvnSplit(c, network, physnet, segid) ==
  LET lswitch_name == OvnName[network.id]
      vlan_id == IF segid # NoValue THEN <<SegmentationIds[segid]>> ELSE <<>>
  IN With(Commit(c, Unit("create_network", NoValue, <<>>, FALSE, TRUE),
                 << CreateLswitchOp(lswitch_name, network.name) >>),
          LAMBDA c1 :
            IF physnet \notin {NoValue, ""}
            THEN Commit(c1, Unit("create_network", NoValue, <<>>, FALSE, TRUE),
                        << CreateLocalnetOp(ProvnetName[network.id], lswitch_name,
                                            vlan_id, physnet) >>)
            ELSE c1)

\* create_network_in_ovn: one transaction.  vlan_id is <<>> for None.
CreateNetworkInOvn(c, network, physnet, segid) ==
  LET lswitch_name == OvnName[network.id]
      vlan_id == IF segid # NoValue THEN <<SegmentationIds[segid]>> ELSE <<>>
  IN Commit(c, Unit("create_network", NoValue, <<>>, FALSE, TRUE),
            << CreateLswitchOp(lswitch_name, network.name) >>
              \o (IF physnet \notin {NoValue, ""}
                  THEN << CreateLocalnetOp(ProvnetName[network.id], lswitch_name,
                                           vlan_id, physnet) >>
                  ELSE <<>>))

\* create_network_postcommit
CreateNetworkPostcommit(c, network) ==
  CreateNetworkInOvn(c, network, GetAttribute(network.physical_network),
                     GetAttribute(network.segmentation_id))

\* Mutant of DeleteNetworkPostcommit: delete_lswitch without if_exists.
DeleteNetworkPostcommitMustExist(c, network) ==
  Commit(c, Unit("delete_network", NoValue, <<>>, FALSE, FALSE),
         << DeleteLswitchOp(OvnName[network.id], FALSE) >>)

\* delete_network_postcommit
DeleteNetworkPostcommit(c, network) ==
  Commit(c, Unit("delete_network", NoValue, <<>>, FALSE, FALSE),
         << DeleteLswitchOp(OvnName[network.id], TRUE) >>)

\* set_lswitch_ext_id, and set_lport with the options given.
SetLswitchExtIdOp(lswitch_name, name) ==
  [op |-> "set_lswitch_ext_id", lswitch |-> lswitch_name, external_ids |-> name]

SetLportOptionsOp(lport_name, options) ==
  [op |-> "set_lport", lport |-> lport_name, options |-> options]

\* _set_network_name: one command, executed on its own.
SetNetworkName(c, network_id, name) ==
  Commit(c, Unit("set_network_name", NoValue, <<>>, FALSE, TRUE),
         << SetLswitchExtIdOp(OvnName[network_id], name) >>)

\* qos_rule.get_rules: the rules of a policy, none for policy None.
QosGetRules(policy_id) ==
  IF policy_id = NoValue THEN <<>> ELSE QosPolicies[policy_id]

\* rule.should_apply_to_port: a rule applies to the ports that have its
\* policy or no policy of their own.
ShouldApplyToPort(rule, port_id) ==
  PortQosPolicy[port_id] \in {rule.qos_policy_id, NoValue}

\* _get_network_ports_for_policy: the network's ports that every rule of
\* the policy applies to.
GetNetworkPortsForPolicy(st, network_id, policy_id) ==
  LET all_rules == QosGetRules(policy_id)
      net_ports == SelectSeq(PortOrder, LAMBDA p :
                     st.ports[p].live /\ PortDict(st, p).network_id = network_id)
  IN SelectSeq(net_ports, LAMBDA p :
       \A i \in 1..Len(all_rules) : ShouldApplyToPort(all_rules[i], p))

\* _qos_get_ovn_options: policing_rate and policing_burst of the policy's
\* bandwidth-limit rules, as far as they are set.
RECURSIVE QosOptions(_, _)
QosOptions(all_rules, options) ==
  IF all_rules = <<>> THEN options
  ELSE LET rule == Head(all_rules)
           rate == IF rule.type = "bandwidth_limit" /\ rule.max_kbps # 0
                   THEN ("policing_rate" :> RateStr[rule.max_kbps]) @@ options
                   ELSE options
           burst == IF rule.type = "bandwidth_limit" /\ rule.max_burst_kbps # 0
                    THEN ("policing_burst" :> RateStr[rule.max_burst_kbps]) @@ rate
                    ELSE rate
       IN QosOptions(Tail(all_rules), burst)

QosGetOvnOptions(policy_id) ==
  QosOptions(QosGetRules(policy_id), [k \in {} |-> ""])

\* _update_network_qos: one transaction of one set_lport per port.  The
\* options are a dictionary, never None.
UpdateNetworkQos(st, c, network_id, policy_id) ==
  LET port_ids == GetNetworkPortsForPolicy(st, network_id, policy_id)
      qos_rule_options == QosGetOvnOptions(policy_id)
  IN Commit(c, Unit("update_network_qos", NoValue, port_ids, FALSE, TRUE),
            [i \in 1..Len(port_ids) |->
               SetLportOptionsOp(port_ids[i], qos_rule_options)])

\* Mutant of UpdateNetworkPostcommit: the name tag is written whether or
\* not the name changed.
UpdateNetworkPostcommitAlwaysName(st, c, original_network, network) ==
  With(SetNetworkName(c, network.id, network.name), LAMBDA c1 :
    IF /\ network.qos_policy_id # QosAbsent
       /\ network.qos_policy_id # original_network.qos_policy_id
    THEN UpdateNetworkQos(st, c1, network.id, network.qos_policy_id)
    ELSE c1)

\* update_network_postcommit
UpdateNetworkPostcommit(st, c, original_network, network) ==
  With(IF network.name # original_network.name
       THEN SetNetworkName(c, network.id, network.name)
       ELSE c, LAMBDA c1 :
    IF /\ network.qos_policy_id # QosAbsent
       /\ network.qos_policy_id # original_network.qos_policy_id
    THEN UpdateNetworkQos(st, c1, network.id, network.qos_policy_id)
    ELSE c1)

(***************************************************************************)
(* Binding profiles (validate_and_get_data_from_binding_profile).         *)
(***************************************************************************)
\* ovn_const.OVN_PORT_BINDING_PROFILE_PARAMS: the parameter sets a binding
\* profile may carry, with the type required of each value.
BindingProfileParams ==
  << [parent_name |-> "str", tag |-> "int"],
     ("vtep-physical-switch" :> "str") @@ ("vtep-logical-switch" :> "str") >>

StrValue(x) == [type |-> "str", str |-> x, int |-> 0]
IntValue(n) == [type |-> "int", str |-> "", int |-> n]

\* No binding profile, or an empty one.
UnsetProfile == [k \in {} |-> StrValue("")]

\* The binding profiles a port may come with.
BindingProfiles ==
  << UnsetProfile,
     [parent_name |-> StrValue("p1"), tag |-> IntValue(5)],
     [parent_name |-> StrValue("p1")],
     [parent_name |-> StrValue("p1"), tag |-> IntValue(5), extra |-> StrValue("x")],
     [parent_name |-> StrValue("p1"), tag |-> StrValue("5")],
     [parent_name |-> StrValue("p1"), tag |-> IntValue(4096)] >>

\* Lines 325-343: the first parameter set the profile has a key of.
RECURSIVE SelectParamSet(_, _)
SelectParamSet(profile, param_sets) ==
  IF param_sets = <<>> THEN [status |-> "ok", found |-> <<>>]
  ELSE LET param_keys == DOMAIN Head(param_sets)
           param_dict == param_keys \cap DOMAIN profile
       IN IF param_dict = {}
          THEN SelectParamSet(profile, Tail(param_sets))
          ELSE IF Cardinality(param_dict) # Cardinality(param_keys)
          THEN [status |-> "invalid", found |-> <<>>]
          ELSE IF Cardinality(DOMAIN profile) # Cardinality(param_keys)
          THEN [status |-> "invalid", found |-> <<>>]
          ELSE [status |-> "ok", found |-> <<Head(param_sets)>>]

\* validate_and_get_data_from_binding_profile: "ok", "invalid" when
\* InvalidInput is raised, "raised" when the parent port is not found.
ValidateBindingProfile(st, profile) ==
  IF DOMAIN profile = {} THEN "ok"
  ELSE LET sel == SelectParamSet(profile, BindingProfileParams)
       IN IF sel.status # "ok" THEN sel.status
          ELSE IF sel.found = <<>> THEN "ok"
          ELSE LET param_set == sel.found[1]
               IN IF \E k \in DOMAIN param_set : profile[k].type # param_set[k]
                  THEN "invalid"
                  ELSE IF /\ "parent_name" \in DOMAIN param_set
                          /\ ~(/\ profile["parent_name"].str \in PortIds
                               /\ st.ports[profile["parent_name"].str].live)
                  THEN "raised"
                  ELSE IF /\ "tag" \in DOMAIN param_set
                          /\ (profile["tag"].int < 0 \/ profile["tag"].int > 4095)
                  THEN "invalid"
                  ELSE "ok"

\* create_port_precommit and update_port_precommit: raising rolls the
\* store's transaction back.
PortPrecommit(st, c, profile) ==
  With(ValidateBindingProfile(st, profile), LAMBDA v :
    IF v = "ok" THEN c ELSE [c EXCEPT !.status = v])

\* create_port_postcommit
CreatePortPostcommit(st, c, port, profile, ord) ==
  With(ValidateBindingProfile(st, profile), LAMBDA v :
    IF v = "ok" THEN CreatePortInOvn(st, c, port, ord)
    ELSE [c EXCEPT !.status = v])

\* update_port_postcommit
UpdatePortPostcommit(st, c, original_port, port, profile, ord) ==
  With(ValidateBindingProfile(st, profile), LAMBDA v :
    IF v = "ok" THEN UpdatePortInOvn(st, c, original_port, port, ord)
    ELSE [c EXCEPT !.status = v])

(***************************************************************************)
(* Events.  Each action is the store mutation that the framework has made  *)
(* durable, followed by the whole handler.                                 *)
(***************************************************************************)
\* What the handler did, as the next state records it.
Done(ev, p, sg, r, orig, c) ==
  [ev |-> ev, port |-> p, sg |-> sg, rule |-> r, orig |-> orig,
   status |-> c.status, units |-> c.units, compiled |-> c.compiled,
   compiled_at |-> c.compiled_at,
   fetched |-> c.fetched, refreshed |-> c.refreshed, store |-> c.store,
   given |-> c.given,
   caches |-> [sg |-> c.sg_cache, sg_ports |-> c.sg_ports_cache,
               subnet |-> c.subnet_cache]]

\* The backend may reject any one transaction of a handler: failAt ranges
\* over the transactions the handler submits when none is rejected.
FailChoices(c0) == 0..Len(c0.units)

UsedIps(ps, p) ==
  UNION {Range(ps[q].fixed_ips) : q \in {x \in PortIds : x # p /\ ps[x].live}}

\* The fixed-IP lists a port may be given: addresses in allocation order.
FixedIpLists ==
  {OrderSet(S, FixedIpOrder) :
     S \in {T \in SUBSET FixedIps : Cardinality(T) <= MaxFixedIps}}

PortInputs(p) ==
  {[live |-> TRUE, security_groups |-> sgs, fixed_ips |-> ips] :
     sgs \in SUBSET SgIds,
     ips \in {s \in FixedIpLists : Range(s) \cap UsedIps(ports, p) = {}}}

\* Port ids are fresh: the ports ever created are those before NextPortId.
NextPortId ==
  LET used == {i \in 1..Len(PortOrder) : PortOrder[i] \in everCreated}
  IN IF used = 1..Len(PortOrder) THEN NoValue
     ELSE PortOrder[Cardinality(used) + 1]

\* The event under observation.  Any one event of a behaviour may be the
\* observed one: last, pre and preLports then record what its handler did
\* and the backend it started from, and the behaviour ends there.
NoEvent ==
  [ev |-> "none", port |-> NoValue, sg |-> NoValue, rule |-> NoValue,
   orig |-> NoPort, status |-> "ok", units |-> <<>>, compiled |-> <<>>,
   compiled_at |-> <<>>,
   fetched |-> <<>>, refreshed |-> <<>>, store |-> NoStore,
   given |-> NoStore,
   caches |-> [sg |-> EmptyCache, sg_ports |-> EmptyCache,
               subnet |-> EmptyCache]]

Enabled == nevents < MaxEvents /\ last.ev = "none"

\* Handlers that run concurrently: the passes that have built their new ACL
\* values and have not executed their update_acls command yet.
NoRace ==
  [inflight |-> <<>>, begun |-> 0, done |-> 0, overlapped |-> FALSE,
   affected |-> {}, raised |-> FALSE]

FinishNetwork(c, d, nets) ==
  \E obs \in BOOLEAN :
  /\ lports' = c.lports
  /\ acls' = c.acls
  /\ lswitches' = c.lswitches
  /\ localnets' = c.localnets
  /\ networks' = nets
  /\ preNet' = IF obs THEN [lswitches |-> lswitches, localnets |-> localnets,
                             networks |-> networks]
               ELSE NoPreNet
  /\ last' = IF obs THEN d ELSE NoEvent
  /\ pre' = IF obs THEN acls ELSE {}
  /\ preLports' = IF obs THEN lports ELSE {}
  /\ failed' = (failed \/ c.status # "ok")
  /\ nevents' = nevents + 1
  /\ race' = race

\* The end of a port or security-group handler: the networks stay.
Finish(c, d) == FinishNetwork(c, d, networks)

\* A port-create request with the given binding profile:
\* create_port_precommit, then create_port_postcommit on the stored port.
CreatePortWith(p, new, ord, profile) ==
  /\ Enabled
  /\ mustDelete = NoValue
  /\ ~ports[p].live
  /\ p = NextPortId
  /\ LET ps == [ports EXCEPT ![p] = new]
         st == Store(ps, rules)
         Run(failAt) == CreatePortPostcommit(st, HandlerContext(st, lports, acls, failAt),
                                             PortDict(st, p), profile, ord)
     IN \E pc \in {PortPrecommit(st, HandlerContext(st, lports, acls, 0), profile)} :
          IF pc.status # "ok"
          THEN /\ Finish(pc, Done("create_port", p, NoValue, NoValue, NoPort, pc))
               /\ UNCHANGED <<ports, rules, mustDelete, everCreated>>
          ELSE \E failAt \in FailChoices(Run(0)) :
                 \E c \in {Run(failAt)} :
                   /\ Finish(c, Done("create_port", p, NoValue, NoValue, NoPort, c))
                   /\ ports' = c.store.ports
                   /\ rules' = c.store.rules
                   /\ mustDelete' = IF c.status # "ok" THEN p ELSE NoValue
                   /\ everCreated' = everCreated \cup {p}

\* create_port_postcommit
CreatePort(p, new, ord) == CreatePortWith(p, new, ord, UnsetProfile)

\* A port-update request with the given binding profile:
\* update_port_precommit, then update_port_postcommit on the stored port.
UpdatePortWith(p, new, ord, profile) ==
  /\ Enabled
  /\ mustDelete = NoValue
  /\ ports[p].live
  /\ LET ps == [ports EXCEPT ![p] = new]
         st == Store(ps, rules)
         Run(failAt) == UpdatePortPostcommit(st, HandlerContext(st, lports, acls, failAt),
                                             PortDict(Store(ports, rules), p),
                                             PortDict(st, p), profile, ord)
     IN \E pc \in {PortPrecommit(st, HandlerContext(st, lports, acls, 0), profile)} :
          IF pc.status # "ok"
          THEN /\ Finish(pc, Done("update_port", p, NoValue, NoValue, ports[p], pc))
               /\ UNCHANGED <<ports, rules>>
          ELSE \E failAt \in FailChoices(Run(0)) :
                 \E c \in {Run(failAt)} :
                   /\ Finish(c, Done("update_port", p, NoValue, NoValue, ports[p], c))
                   /\ ports' = c.store.ports
                   /\ rules' = c.store.rules
  /\ UNCHANGED <<mustDelete, everCreated>>

\* update_port_postcommit
UpdatePort(p, new, ord) == UpdatePortWith(p, new, ord, UnsetProfile)

\* delete_port_postcommit
DeletePort(p, ord) ==
  /\ Enabled
  /\ mustDelete \in {NoValue, p}
  /\ ports[p].live
  /\ LET ps == [ports EXCEPT ![p] = NoPort]
         st == Store(ps, rules)
         Run(failAt) == DeletePortPostcommit(st, HandlerContext(st, lports, acls, failAt),
                                             PortDict(Store(ports, rules), p), ord)
     IN \E failAt \in FailChoices(Run(0)) :
          \E c \in {Run(failAt)} :
             /\ Finish(c, Done("delete_port", p, NoValue, NoValue, ports[p], c))
             /\ ports' = c.store.ports
             /\ rules' = c.store.rules
             /\ mustDelete' = NoValue
  /\ UNCHANGED everCreated

\* create_network_postcommit.  A handler that raises makes the framework
\* delete the network.
CreateNetwork(n, new) ==
  /\ Enabled
  /\ mustDelete = NoValue
  /\ ~networks[n].live
  /\ n \notin everCreated
  /\ LET st == Store(ports, rules)
         Run(failAt) == CreateNetworkPostcommit(
                          HandlerContext(st, lports, acls, failAt),
                          NetworkDict(n, new))
     IN \E failAt \in FailChoices(Run(0)) :
          \E c \in {Run(failAt)} :
             /\ FinishNetwork(c, Done("create_network", n, NoValue, NoValue, NoPort, c),
                              [networks EXCEPT ![n] = new])
             /\ ports' = c.store.ports
             /\ rules' = c.store.rules
             /\ mustDelete' = IF c.status # "ok" THEN n ELSE NoValue
             /\ everCreated' = everCreated \cup {n}

\* delete_network_postcommit: the network has no ports left in the store,
\* and leaves the store whatever the handler does.
DeleteNetwork(n) ==
  /\ Enabled
  /\ mustDelete \in {NoValue, n}
  /\ networks[n].live
  /\ n = NetworkId => \A p \in PortIds : ~ports[p].live
  /\ LET st == Store(ports, rules)
         Run(failAt) == DeleteNetworkPostcommit(
                          HandlerContext(st, lports, acls, failAt),
                          NetworkDict(n, networks[n]))
     IN \E failAt \in FailChoices(Run(0)) :
          \E c \in {Run(failAt)} :
             /\ FinishNetwork(c, Done("delete_network", n, NoValue, NoValue, NoPort, c),
                              [networks EXCEPT ![n] = NoNetwork])
             /\ ports' = c.store.ports
             /\ rules' = c.store.rules
             /\ mustDelete' = NoValue
  /\ UNCHANGED everCreated

\* update_network_postcommit.  The update is in the store whatever the
\* handler does.
UpdateNetwork(n, new) ==
  /\ Enabled
  /\ mustDelete = NoValue
  /\ networks[n].live
  /\ LET st == Store(ports, rules)
         Run(failAt) == UpdateNetworkPostcommit(
                          st, HandlerContext(st, lports, acls, failAt),
                          NetworkDict(n, networks[n]), NetworkDict(n, new))
     IN \E failAt \in FailChoices(Run(0)) :
          \E c \in {Run(failAt)} :
             /\ FinishNetwork(c, Done("update_network", n, NoValue, NoValue, NoPort, c),
                              [networks EXCEPT ![n] = new])
             /\ ports' = c.store.ports
             /\ rules' = c.store.rules
  /\ UNCHANGED <<mustDelete, everCreated>>

\* sg_callback, SECURITY_GROUP_RULE AFTER_CREATE
CreateRule(r) ==
  /\ Enabled
  /\ mustDelete = NoValue
  /\ r \notin rules
  /\ LET rs == rules \cup {r}
         st == Store(ports, rs)
         Run(failAt) == SgCallback(st, HandlerContext(st, lports, acls, failAt),
                                   RuleUniverse[r].security_group_id,
                                   <<RuleUniverse[r]>>, TRUE)
     IN \E failAt \in FailChoices(Run(0)) :
          \E c \in {Run(failAt)} :
             /\ Finish(c, Done("create_rule", NoValue,
                               RuleUniverse[r].security_group_id, r, NoPort, c))
             /\ ports' = c.store.ports
             /\ rules' = c.store.rules
  /\ UNCHANGED <<mustDelete, everCreated>>

\* sg_callback, SECURITY_GROUP_RULE BEFORE_DELETE: the rule is still in the
\* store while the handler runs, and stays if the handler fails.
DeleteRule(r) ==
  /\ Enabled
  /\ mustDelete = NoValue
  /\ r \in rules
  /\ LET st == Store(ports, rules)
         Run(failAt) == SgCallback(st, HandlerContext(st, lports, acls, failAt),
                                   RuleUniverse[r].security_group_id,
                                   <<RuleUniverse[r]>>, FALSE)
     IN \E failAt \in FailChoices(Run(0)) :
          \E c \in {Run(failAt)} :
             /\ Finish(c, Done("delete_rule", NoValue,
                               RuleUniverse[r].security_group_id, r, NoPort, c))
             /\ ports' = c.store.ports
             /\ rules' = IF c.status = "ok" THEN c.store.rules \ {r}
                         ELSE c.store.rules
  /\ UNCHANGED <<mustDelete, everCreated>>

\* sg_callback, SECURITY_GROUP AFTER_UPDATE
UpdateSg(sg) ==
  /\ Enabled
  /\ mustDelete = NoValue
  /\ LET st == Store(ports, rules)
         Run(failAt) == SgCallback(st, HandlerContext(st, lports, acls, failAt), sg, <<>>, TRUE)
     IN \E failAt \in FailChoices(Run(0)) :
          \E c \in {Run(failAt)} :
             /\ Finish(c, Done("update_sg", NoValue, sg, NoValue, NoPort, c))
             /\ ports' = c.store.ports
             /\ rules' = c.store.rules
  /\ UNCHANGED <<mustDelete, everCreated>>

Init ==
  /\ ports = [p \in PortIds |-> NoPort]
  /\ rules = RuleIds
  /\ lports = {}
  /\ acls = {}
  /\ last = NoEvent
  /\ pre = {}
  /\ preLports = {}
  /\ failed = FALSE
  /\ mustDelete = NoValue
  /\ everCreated = {NetworkId}
  /\ nevents = 0
  /\ race = NoRace
  /\ networks = [n \in NetIds |-> IF n = NetworkId THEN FirstNetwork ELSE NoNetwork]
  /\ lswitches = {[name |-> OvnName[NetworkId], external_ids |-> FirstNetwork.name]}
  /\ localnets = {}
  /\ preNet = NoPreNet

Next ==
  \/ \E p \in PortIds, ord \in Perms(SgOrder) :
       \E new \in PortInputs(p) : CreatePort(p, new, ord)
  \/ \E p \in PortIds, ord \in Perms(SgOrder) :
       \E new \in PortInputs(p) : UpdatePort(p, new, ord)
  \/ \E p \in PortIds, ord \in Perms(SgOrder) : DeletePort(p, ord)
  \/ \E r \in RuleIds : CreateRule(r)
  \/ \E r \in RuleIds : DeleteRule(r)
  \/ \E sg \in SgIds : UpdateSg(sg)

Spec == Init /\ [][Next]_vars

(***************************************************************************)
(* Concurrent handlers.  Neutron serves API requests from several workers  *)
(* and green threads, and the driver takes no lock: a handler's reads of   *)
(* the store (lines 596-633) and the execution of its update_acls command  *)
(* (lines 635-639) are separate steps, and another handler may run between *)
(* them.                                                                   *)
(***************************************************************************)
MaxPasses == 2

\* The store and backend the concurrent handlers start from: p1 and p2
\* created one after the other by create_port_postcommit, each with an
\* address.
RacePorts ==
  {[p \in PortIds |->
      IF p = "p1"
      THEN [live |-> TRUE, security_groups |-> g1, fixed_ips |-> <<FixedIpOrder[1]>>]
      ELSE IF p = "p2"
      THEN [live |-> TRUE, security_groups |-> g2, fixed_ips |-> <<ip2>>]
      ELSE NoPort] :
     g1 \in SUBSET SgIds \ {{}}, g2 \in SUBSET SgIds \ {{}},
     ip2 \in {FixedIpOrder[2], FixedIpOrder[3]}}

RaceRules == {RuleIds \ S : S \in SUBSET {"r1", "r3"}}

RaceCreated(ps, rs) ==
  With(CreatePortInOvn(Store([ps EXCEPT !["p2"] = NoPort], rs),
                       NewContext({}, {}, 0),
                       PortDict(Store(ps, rs), "p1"), SgOrder),
       LAMBDA c1 :
         CreatePortInOvn(Store(ps, rs), NewContext(c1.lports, c1.acls, 0),
                         PortDict(Store(ps, rs), "p2"), SgOrder))

RaceInit ==
  \E ps \in RacePorts, rs \in RaceRules :
    \E c \in {RaceCreated(ps, rs)} :
      /\ c.status = "ok"
      /\ ports = ps
      /\ rules = rs
      /\ lports = c.lports
      /\ acls = c.acls
      /\ last = NoEvent
      /\ pre = {}
      /\ preLports = {}
      /\ failed = FALSE
      /\ mustDelete = NoValue
      /\ everCreated = {NetworkId, "p1", "p2"}
      /\ nevents = 0
      /\ race = NoRace
      /\ networks = [n \in NetIds |-> IF n = NetworkId THEN FirstNetwork ELSE NoNetwork]
      /\ lswitches = {[name |-> OvnName[NetworkId], external_ids |-> FirstNetwork.name]}
      /\ localnets = {}
      /\ preNet = NoPreNet

\* A handler starts: it reads the store and builds acl_new_values_dict.  A
\* handler that raises here ends without a command.
RaceBegin(ev, sg, rule, is_add_acl, st) ==
  /\ race.begun < MaxPasses
  /\ \E vals \in {AclNewValues(st, NewContext(lports, acls, 0), sg, {}, rule)} :
       race' =
         IF vals.c.status # "ok"
         THEN [race EXCEPT !.begun = @ + 1, !.done = @ + 1, !.raised = TRUE]
         ELSE [race EXCEPT
                 !.begun = @ + 1,
                 !.overlapped = @ \/ race.inflight # <<>>,
                 !.affected = @ \cup Range(vals.v.port_list),
                 !.inflight = Append(@, [ev |-> ev, sg |-> sg, rule |-> rule,
                                         is_add_acl |-> is_add_acl,
                                         vals |-> vals.v])]
  /\ UNCHANGED <<ports, lports, acls, last, pre, preLports, failed, mustDelete,
                 everCreated, nevents, networks, lswitches, localnets, preNet>>

\* sg_callback, SECURITY_GROUP_RULE AFTER_CREATE, up to line 633.
RaceBeginCreateRule(r) ==
  /\ r \notin rules
  /\ RaceBegin("create_rule", RuleUniverse[r].security_group_id,
               <<RuleUniverse[r]>>, TRUE, Store(ports, rules \cup {r}))
  /\ rules' = rules \cup {r}

\* sg_callback, SECURITY_GROUP_RULE BEFORE_DELETE, up to line 633.
RaceBeginDeleteRule(r) ==
  /\ r \in rules
  /\ \A i \in 1..Len(race.inflight) : race.inflight[i].rule # <<RuleUniverse[r]>>
  /\ RaceBegin("delete_rule", RuleUniverse[r].security_group_id,
               <<RuleUniverse[r]>>, FALSE, Store(ports, rules))
  /\ rules' = rules

\* sg_callback, SECURITY_GROUP AFTER_UPDATE, up to line 633.
RaceBeginUpdateSg(sg) ==
  /\ RaceBegin("update_sg", sg, <<>>, TRUE, Store(ports, rules))
  /\ rules' = rules

\* Lines 635-639 of a handler that has begun: its update_acls command runs
\* on the backend as it is now.  A rule under deletion leaves the store
\* once its BEFORE_DELETE handler has returned.
RaceExecute(i) ==
  /\ i \in 1..Len(race.inflight)
  /\ LET pass == race.inflight[i]
     IN \E c \in {ExecuteUpdateAcls(NewContext(lports, acls, 0), pass.sg,
                                    pass.vals, pass.rule, pass.is_add_acl)} :
          /\ acls' = c.acls
          /\ lports' = c.lports
          /\ rules' = IF pass.ev = "delete_rule"
                      THEN rules \ {pass.rule[1].id} ELSE rules
          /\ race' = [race EXCEPT
                        !.done = @ + 1,
                        !.inflight = SubSeq(@, 1, i - 1) \o SubSeq(@, i + 1, Len(@))]
  /\ UNCHANGED <<ports, last, pre, preLports, failed, mustDelete, everCreated,
                 nevents, networks, lswitches, localnets, preNet>>

RaceNext ==
  \/ \E r \in RuleIds : RaceBeginCreateRule(r)
  \/ \E r \in RuleIds : RaceBeginDeleteRule(r)
  \/ \E sg \in SgIds : RaceBeginUpdateSg(sg)
  \/ \E i \in 1..MaxPasses : RaceExecute(i)

SpecRace == RaceInit /\ [][RaceNext]_vars

(***************************************************************************)
(* Network events.                                                         *)
(***************************************************************************)
\* The ports created on the network: no security group, one fixed IP at
\* most.
NetworkPortInputs(p) ==
  {new \in PortInputs(p) :
     new.security_groups = {} /\ Len(new.fixed_ips) <= 1}

NextNetwork ==
  \/ \E n \in NetIds : \E new \in NetworkInputs : CreateNetwork(n, new)
  \/ \E n \in NetIds : \E new \in NetworkUpdates(networks[n]) :
       UpdateNetwork(n, new)
  \/ \E n \in NetIds : DeleteNetwork(n)
  \/ \E p \in PortIds : \E new \in NetworkPortInputs(p) :
       networks[NetworkId].live /\ CreatePort(p, new, SgOrder)

SpecNetwork == Init /\ [][NextNetwork]_vars

(***************************************************************************)
(* Events with input that fails validation: ports that come with any       *)
(* binding profile, and rules that the compiler's consistency check        *)
(* rejects.                                                                *)
(***************************************************************************)
\* Port attributes with at most one fixed IP.
PortInputsOneIp(p) == {new \in PortInputs(p) : Len(new.fixed_ips) <= 1}

NextUnvalidated ==
  \/ \E p \in PortIds, i \in 1..Len(BindingProfiles) :
       \E new \in PortInputsOneIp(p) : CreatePortWith(p, new, SgOrder, BindingProfiles[i])
  \/ \E p \in PortIds, i \in 1..Len(BindingProfiles) :
       \E new \in PortInputsOneIp(p) : UpdatePortWith(p, new, SgOrder, BindingProfiles[i])
  \/ \E p \in PortIds : DeletePort(p, SgOrder)
  \/ \E r \in DOMAIN RuleUniverse : CreateRule(r)
  \/ \E r \in DOMAIN RuleUniverse : DeleteRule(r)
  \/ \E sg \in SgIds : UpdateSg(sg)

SpecUnvalidated == Init /\ [][NextUnvalidated]_vars

(***************************************************************************)
(* Properties.                                                             *)
(***************************************************************************)
St == Store(ports, rules)

Live == {p \in PortIds : ports[p].live}

\* The ACL rows of port p in the backend, now and before the observed event.
BackendAcls(p) == {a \in acls : a.lport = p}
PreAcls(p) == {a \in pre : a.lport = p}

\* The list the full compiler returns for port p from the current store.
CompiledList(st, p) == AddAcls(st, NewContext({}, {}, 0), PortDict(st, p)).v
Compiled(p) == Range(CompiledList(St, p))

\* The ACL of rule r on port p: <<acl>>, or <<>> when the rule is void.
RuleAcl(p, r) ==
  AddSgRuleAclForPort(St, NewContext({}, {}, 0), PortDict(St, p), RuleUniverse[r]).v

\* The ports attached to group sg.
Members(sg) == {p \in Live : sg \in ports[p].security_groups}

\* The rules of the store that name a remote group.
RemoteRules == {r \in rules : RuleUniverse[r].remote_group_id # NoValue}

DropIngress(p) == DropAllIpTrafficForPort(PortDict(St, p))[2]
DropEgress(p) == DropAllIpTrafficForPort(PortDict(St, p))[1]

\* The addresses of port p whose subnet has the IP version of rule r.
AddressesFor(p, r) ==
  {ports[p].fixed_ips[i].ip_address :
     i \in {j \in 1..Len(ports[p].fixed_ips) :
              Subnets[ports[p].fixed_ips[j].subnet_id].ip_version =
                IpVersionNumber(AclEthertype(RuleUniverse[r]).ip_version)}}

AllAddresses(p) ==
  {ports[p].fixed_ips[i].ip_address : i \in 1..Len(ports[p].fixed_ips)}

Count(seq, x) == Cardinality({i \in 1..Len(seq) : seq[i] = x})

\* C1: after events that all ran to completion, the backend ACLs of every
\* live port are the set the full compiler produces from the current store,
\* and a port that is not live has no ACL.
C1_BackendEqualsCompile ==
  ~failed =>
    \A p \in PortIds :
      BackendAcls(p) = IF ports[p].live THEN Compiled(p) ELSE {}

\* C2 as stated: after a port P with a fixed IP was created in group A, every
\* port of a group B with a rule naming A has, in the backend, the ACL of that
\* rule with a term for every address of P, and P was compiled once.
C2_CascadeCoversEveryAddress ==
  (last.ev = "create_port" /\ last.status = "ok"
     /\ ports[last.port].fixed_ips # <<>>) =>
    /\ Count(last.compiled, last.port) = 1
    /\ \A r \in RemoteRules :
         RuleUniverse[r].remote_group_id \in ports[last.port].security_groups =>
           \A q \in Members(RuleUniverse[r].security_group_id) :
             /\ RuleAcl(q, r) # <<>>
             /\ RuleAcl(q, r)[1] \in BackendAcls(q)
             /\ AllAddresses(last.port) \subseteq Range(RuleAcl(q, r)[1].match)

\* C2 amended: after a port P with a fixed IP was created in group A, every
\* other port of a group B with a rule naming A has, in the backend, the ACL
\* of that rule with a term for each address of P whose subnet has the rule's
\* IP version, and P was compiled exactly once in the whole event.
C2_CascadeCoversPeers ==
  (last.ev = "create_port" /\ last.status = "ok"
     /\ ports[last.port].fixed_ips # <<>>) =>
    /\ Count(last.compiled, last.port) = 1
    /\ \A r \in RemoteRules :
         RuleUniverse[r].remote_group_id \in ports[last.port].security_groups =>
           \A q \in Members(RuleUniverse[r].security_group_id) \ {last.port} :
             /\ RuleAcl(q, r) # <<>>
             /\ RuleAcl(q, r)[1] \in BackendAcls(q)
             /\ BackendAcls(q) = Compiled(q)
             /\ AddressesFor(last.port, r) \subseteq Range(RuleAcl(q, r)[1].match)

\* C2 witness: a port with an IPv4 address was created in A while another port
\* is in B, whose rule r3 names A, and the other port's ACL carries the address.
C2_Witness ==
  /\ last.ev = "create_port" /\ last.status = "ok"
  /\ "A" \in ports[last.port].security_groups
  /\ "r3" \in rules
  /\ AddressesFor(last.port, "r3") # {}
  /\ \E q \in Members("B") \ {last.port} :
       \E a \in BackendAcls(q) : AddressesFor(last.port, "r3") \subseteq Range(a.match)

\* C3: the compiled list of every port with a security group holds the
\* drop-all-ingress and the drop-all-egress entry.
C3_DefaultDeny ==
  \A p \in Live :
    ports[p].security_groups # {} =>
      /\ DropIngress(p) \in Compiled(p)
      /\ DropEgress(p) \in Compiled(p)
      /\ DropIngress(p).action = "drop" /\ DropIngress(p).direction = "to-lport"
      /\ DropEgress(p).action = "drop" /\ DropEgress(p).direction = "from-lport"

\* C3 witness: a port with a security group and no fixed IP.
C3_Witness ==
  \E p \in Live : ports[p].security_groups # {} /\ ports[p].fixed_ips = <<>>

\* C4: port create submits the logical port and all ACLs of the port in one
\* transaction; when the backend rejects it, neither the logical port nor any
\* ACL of the port is in the backend, which is as it was before.
C4_CreateAtomic ==
  last.ev = "create_port" =>
    /\ last.units[1].kind = "create_port"
    /\ Op("create_lport", last.port, {}) \in Range(last.units[1].ops)
    /\ \A a \in Compiled(last.port) :
         Op("add_acl", last.port, {a}) \in Range(last.units[1].ops)
    /\ ~last.units[1].committed =>
         /\ last.port \notin lports
         /\ BackendAcls(last.port) = {}
         /\ lports = preLports /\ acls = pre
         /\ last.status = "txn_failed" /\ Len(last.units) = 1

\* C4 witness: a rejected create of a port that has ACLs to add.
C4_Witness ==
  /\ last.ev = "create_port"
  /\ ~last.units[1].committed
  /\ Compiled(last.port) # {}

\* C5: a rule naming a remote group that has no member other than the port
\* being compiled adds nothing to the port's compiled list, and the ACL of
\* every other rule of the port is in the list.
C5_EmptyRemoteGroupElided ==
  \A p \in Live : \A r \in RemoteRules :
    (/\ RuleUniverse[r].security_group_id \in ports[p].security_groups
     /\ Members(RuleUniverse[r].remote_group_id) \ {p} = {}) =>
      /\ CompiledList(St, p) = CompiledList(Store(ports, rules \ {r}), p)
      /\ RuleAcl(p, r) = <<>>
      /\ \A r2 \in rules \ {r} :
           RuleUniverse[r2].security_group_id \in ports[p].security_groups =>
             Range(RuleAcl(p, r2)) \subseteq Compiled(p)

\* C5 witness: a port alone in the remote group of one of its rules, with
\* another rule that compiles to an ACL.
C5_Witness ==
  \E p \in Live : \E r \in RemoteRules : \E r2 \in rules \ {r} :
    /\ RuleUniverse[r].security_group_id \in ports[p].security_groups
    /\ RuleUniverse[r2].security_group_id \in ports[p].security_groups
    /\ Members(RuleUniverse[r].remote_group_id) = {p}
    /\ RuleAcl(p, r2) # <<>>

\* C6: a rule create or delete event for a remote-group rule, where for some
\* port of the owning group the remote group has no other member, runs to
\* completion without raising and leaves that port's ACLs as they were.
C6_TargetedEmptyPeersNoError ==
  (/\ last.ev \in {"create_rule", "delete_rule"}
   /\ RuleUniverse[last.rule].remote_group_id # NoValue
   /\ \E p \in Members(last.sg) :
        Members(RuleUniverse[last.rule].remote_group_id) \ {p} = {}) =>
    /\ last.status # "raised"
    /\ \A p \in Members(last.sg) :
         Members(RuleUniverse[last.rule].remote_group_id) \ {p} = {} =>
           BackendAcls(p) = PreAcls(p)

\* C7: a rule delete that ran to completion removes from each port only the
\* ACL of that rule: nothing is added, the drop-all and DHCP entries stay, the
\* ACL of every other rule of the port stays, and nothing is recompiled in full.
C7_TargetedDeleteFrame ==
  (last.ev = "delete_rule" /\ last.status = "ok") =>
    /\ last.compiled = <<>>
    /\ \A i \in 1..Len(last.units) : ~last.units[i].need_compare
    /\ \A p \in Live :
         /\ BackendAcls(p) \subseteq PreAcls(p)
         /\ PreAcls(p) \ BackendAcls(p) \subseteq Range(RuleAcl(p, last.rule))
         /\ \A a \in PreAcls(p) : a.action \in {"drop", "allow"} => a \in acls
         /\ \A r2 \in rules :
              RuleUniverse[r2].security_group_id \in ports[p].security_groups =>
                \A a \in Range(RuleAcl(p, r2)) : a \in pre => a \in acls

\* The groups a port joined in the observed create or update.
Joined ==
  IF last.ev = "create_port" THEN ports[last.port].security_groups
  ELSE ports[last.port].security_groups \ last.orig.security_groups

\* C8 as stated: when a port with a fixed IP became the first member of G3,
\* every port of a group G2 with a rule naming G3 has the ACL of that rule in
\* the backend after the event.
C8_FirstPeerEveryPort ==
  (last.ev \in {"create_port", "update_port"} /\ last.status = "ok"
     /\ ports[last.port].fixed_ips # <<>>) =>
    \A r \in RemoteRules :
      (/\ RuleUniverse[r].remote_group_id \in Joined
       /\ Members(RuleUniverse[r].remote_group_id) = {last.port}) =>
        \A q \in Members(RuleUniverse[r].security_group_id) :
          RuleAcl(q, r) # <<>> /\ RuleAcl(q, r)[1] \in BackendAcls(q)

\* C8 amended: when a port with a fixed IP became the first member of G3,
\* every other port of a group G2 with a rule naming G3 has the ACL of that
\* rule in the backend after the event.
C8_FirstPeerOtherPorts ==
  (last.ev \in {"create_port", "update_port"} /\ last.status = "ok"
     /\ ports[last.port].fixed_ips # <<>>) =>
    \A r \in RemoteRules :
      (/\ RuleUniverse[r].remote_group_id \in Joined
       /\ Members(RuleUniverse[r].remote_group_id) = {last.port}) =>
        \A q \in Members(RuleUniverse[r].security_group_id) \ {last.port} :
          RuleAcl(q, r) # <<>> /\ RuleAcl(q, r)[1] \in BackendAcls(q)

\* C8 witness: a port was updated into A as its first member while another
\* port is in B, and the ACL of r3 of that port, absent before, is now there.
C8_Witness ==
  /\ last.ev = "update_port" /\ last.status = "ok"
  /\ ports[last.port].fixed_ips # <<>>
  /\ "A" \in Joined /\ Members("A") = {last.port}
  /\ "r3" \in rules
  /\ \E q \in Members("B") \ {last.port} :
       /\ RuleAcl(q, "r3") # <<>>
       /\ RuleAcl(q, "r3")[1] \in BackendAcls(q)
       /\ RuleAcl(q, "r3")[1] \notin pre

\* C9: the compiled list of a port has no two entries with the same direction
\* and match.
C9_NoDuplicateDirectionMatch ==
  \A p \in Live :
    \A i, j \in 1..Len(CompiledList(St, p)) :
      (/\ CompiledList(St, p)[i].direction = CompiledList(St, p)[j].direction
       /\ CompiledList(St, p)[i].match = CompiledList(St, p)[j].match) => i = j

\* C10: a port without security groups compiles to the empty list, and its
\* create submits one transaction that creates the logical port and adds no
\* ACL, and no cascading refresh.
C10_NoGroupsNoAcls ==
  /\ \A p \in Live : ports[p].security_groups = {} => CompiledList(St, p) = <<>>
  /\ (last.ev = "create_port" /\ ports[last.port].security_groups = {}) =>
       /\ Len(last.units) = 1
       /\ last.units[1].ops = << Op("create_lport", last.port, {}) >>
       /\ last.compiled = << last.port >>
       /\ acls = pre
       /\ last.units[1].committed =>
            lports = preLports \cup {last.port} /\ BackendAcls(last.port) = {}

\* C10 witness: a port with fixed IPs and no security group was created while
\* rules naming groups as remote exist.
C10_Witness ==
  /\ last.ev = "create_port" /\ last.status = "ok"
  /\ ports[last.port].security_groups = {}
  /\ Len(ports[last.port].fixed_ips) = 2
  /\ RemoteRules # {}

\* C11: port update is one transaction of set_lport, the deletion of all of
\* the port's ACLs and then one add per freshly compiled entry; once it has
\* committed, the port's backend ACLs are exactly the new compile and no
\* prior ACL outside it survives; when it is rejected the backend is as it
\* was.
C11_UpdateWholesale ==
  (last.ev = "update_port" /\ last.units # <<>>) =>
    LET u == last.units[1]
        p == last.port
    IN /\ u.kind = "update_port"
       /\ u.ops = << Op("set_lport", p, {}), Op("delete_acl", p, {}) >>
                    \o AddAclOps(CompiledList(St, p))
       /\ u.committed =>
            /\ BackendAcls(p) = Compiled(p)
            /\ (PreAcls(p) \cap BackendAcls(p)) \subseteq Compiled(p)
       /\ ~u.committed =>
            /\ acls = pre /\ lports = preLports
            /\ Len(last.units) = 1 /\ last.status = "txn_failed"

\* C11 witness: a committed update that removes some prior ACL of the port
\* and adds a new one.
C11_Witness ==
  /\ last.ev = "update_port" /\ last.units # <<>>
  /\ last.units[1].committed
  /\ PreAcls(last.port) \ Compiled(last.port) # {}
  /\ Compiled(last.port) \ PreAcls(last.port) # {}

\* The groups the updated port left or joined, and those it remains in.
ChangedGroups ==
  (last.orig.security_groups \ ports[last.port].security_groups)
    \cup (ports[last.port].security_groups \ last.orig.security_groups)
RemainingGroups ==
  ports[last.port].security_groups \cap last.orig.security_groups

OrigAddresses ==
  {last.orig.fixed_ips[i].ip_address : i \in 1..Len(last.orig.fixed_ips)}

\* C13: port delete is one transaction of delete_lport and the deletion of
\* all of the port's ACLs; if the port had a fixed IP, every group with a
\* rule naming one of the port's groups as remote group is then fully
\* recomputed, and no ACL in the backend has a term for an address of the
\* deleted port.
C13_DeleteCascade ==
  (last.ev = "delete_port" /\ last.status = "ok") =>
    LET p == last.port
        u == last.units[1]
        refering ==
          UNION {GetReferingSgIds(St, g) : g \in last.orig.security_groups}
    IN /\ u.kind = "delete_port" /\ u.committed
       /\ u.ops = << Op("delete_lport", p, {}), Op("delete_acl", p, {}) >>
       /\ p \notin lports /\ BackendAcls(p) = {}
       /\ last.orig.fixed_ips = <<>> => Len(last.units) = 1
       /\ last.orig.fixed_ips # <<>> =>
            /\ {last.units[i].sg : i \in 2..Len(last.units)} = refering
            /\ \A i \in 2..Len(last.units) :
                 /\ last.units[i].kind = "update_acls"
                 /\ last.units[i].need_compare /\ last.units[i].committed
            /\ \A a \in acls : Range(a.match) \cap OrigAddresses = {}

\* C13 witness: the deleted port had an address that an ACL of another port
\* named before the event.
C13_Witness ==
  /\ last.ev = "delete_port" /\ last.status = "ok"
  /\ \E a \in pre : a.lport # last.port /\ Range(a.match) \cap OrigAddresses # {}

\* The pass context a compile of port q from empty caches leaves.
CachesAfter(q) == AddAcls(St, NewContext({}, {}, 0), PortDict(St, q)).c

\* C14: with the store unchanged, a second compile of a port yields the same
\* set of ACLs as the first, whether it starts from empty caches, from the
\* caches the first compile filled, or from the caches the compile of
\* another port of the pass filled.
\* (Every store reached is the store of a state that records no observed
\* event, so the compiles are compared in those states.)
C14_CompileIdempotent ==
  last.ev = "none" =>
    \A q \in Live :
      LET shared == CachesAfter(q)
      IN \A p \in Live :
           Range(AddAcls(St, shared, PortDict(St, p)).v) = Compiled(p)

\* C14 witness: a port whose compile reads all three caches, with another
\* port in the remote group of one of its rules.
C14_Witness ==
  \E p \in Live : \E q \in Live \ {p} : \E r \in RemoteRules :
    /\ last.ev = "none"
    /\ RuleUniverse[r].security_group_id \in ports[p].security_groups
    /\ RuleUniverse[r].remote_group_id \in ports[q].security_groups
    /\ RuleUniverse[r].remote_group_id \in ports[p].security_groups
    /\ ports[p].fixed_ips # <<>> /\ ports[q].fixed_ips # <<>>
    /\ DOMAIN CachesAfter(p).sg_ports_cache # {}
    /\ DOMAIN CachesAfter(p).subnet_cache # {}
    /\ DOMAIN CachesAfter(p).sg_cache # {}

\* The handler of the observed event run again from the backend it started
\* from, with the referencing groups iterated in order ord and the ports of
\* a group in order po.
Replay(ord, po) ==
  LET c0 == [NewContext(preLports, pre, 0) EXCEPT !.port_ord = po]
      orig == [id |-> last.port, network_id |-> NetworkId,
               security_groups |-> last.orig.security_groups,
               fixed_ips |-> last.orig.fixed_ips]
  IN CASE last.ev = "create_port" ->
            CreatePortInOvn(St, c0, PortDict(St, last.port), ord)
       [] last.ev = "update_port" ->
            UpdatePortInOvn(St, c0, orig, PortDict(St, last.port), ord)
       [] last.ev = "delete_port" ->
            DeletePortPostcommit(St, c0, orig, ord)
       [] last.ev = "create_rule" ->
            SgCallback(St, c0, last.sg, <<RuleUniverse[last.rule]>>, TRUE)
       [] last.ev = "delete_rule" ->
            SgCallback(Store(ports, rules \cup {last.rule}), c0, last.sg,
                       <<RuleUniverse[last.rule]>>, FALSE)
       [] last.ev = "update_sg" ->
            SgCallback(St, c0, last.sg, <<>>, TRUE)

\* The observed pass recomputed more than one port or more than one group.
Permutable ==
  \/ \E i \in 1..Len(last.units) : Len(last.units[i].ports) > 1
  \/ Cardinality({i \in 1..Len(last.units) :
                    last.units[i].kind = "update_acls"}) > 1

\* The orders of the ports: every order of the ports the observed pass
\* recomputed, followed by the other ports.
PortOrders ==
  LET affected == UNION {Range(last.units[i].ports) : i \in 1..Len(last.units)}
  IN {po \o OrderSet(PortIds \ affected, PortOrder) :
        po \in Perms(OrderSet(affected, PortOrder))}

\* C15: a pass that ran to completion leaves the same backend whatever the
\* order in which it recomputes the referencing groups and the ports of
\* each group.
C15_OrderIndependent ==
  (last.ev # "none" /\ last.status = "ok" /\ Permutable) =>
    \A ord \in Perms(SgOrder) : \A po \in PortOrders :
      LET c == Replay(ord, po)
      IN c.status = "ok" /\ c.acls = acls /\ c.lports = lports

\* C15 witness: a pass that recomputed two groups, one of them with two
\* ports, and changed the ACLs of two ports.
C15_Witness ==
  /\ last.ev # "none" /\ last.status = "ok"
  /\ \E i \in 1..Len(last.units) : Len(last.units[i].ports) > 1
  /\ Cardinality({last.units[i].sg : i \in 2..Len(last.units)}) > 1
  /\ Cardinality({q \in PortIds : q # last.port /\ BackendAcls(q) # PreAcls(q)}) > 1

\* C16: when two handlers' passes interleave on the same ports, then once
\* both have completed, the backend ACLs of every port they covered equal
\* the compile of that port from the store as it is then.
C16_RacingPassesConverge ==
  (race.begun = MaxPasses /\ race.done = MaxPasses /\ race.overlapped
     /\ ~race.raised)
    => \A p \in race.affected : BackendAcls(p) = Compiled(p)

C18_StoreNeverWritten ==
  last.ev # "none" => last.store = last.given

\* A rule creation whose transaction the backend rejected: the rule stays
\* in the store.
C18_Witness ==
  /\ last.ev = "create_rule"
  /\ last.status = "txn_failed"
  /\ last.rule \in rules
  /\ last.store = last.given
  /\ last.store = St

HasLswitch(sws, n) == \E sw \in sws : sw.name = OvnName[n]

\* C19: a network delete that the backend does not reject succeeds; when
\* the network's switch was already absent the backend is left unchanged,
\* and when it existed it is removed.
C19_NetworkDeleteIdempotent ==
  (last.ev = "delete_network" /\ last.status # "txn_failed") =>
    /\ last.status = "ok"
    /\ ~HasLswitch(lswitches, last.port)
    /\ ~HasLswitch(preNet.lswitches, last.port) =>
         /\ lswitches = preNet.lswitches
         /\ localnets = preNet.localnets
         /\ lports = preLports
         /\ acls = pre

\* The delete that follows a failed network create: the switch is absent.
C19_Witness ==
  /\ last.ev = "delete_network"
  /\ last.status = "ok"
  /\ ~HasLswitch(preNet.lswitches, last.port)
  /\ last.units[1].committed
  /\ last.units[1].ops = << DeleteLswitchOp(OvnName[last.port], TRUE) >>

\* C20: network create submits exactly one transaction, which creates the
\* switch named after the network and, exactly when a physical network is
\* set, a localnet port on it; when the transaction fails neither exists.
C20_NetworkCreateOneTransaction ==
  last.ev = "create_network" =>
    LET n == last.port
        net == networks[n]
        physnet == GetAttribute(net.physical_network)
        u == last.units[1]
        localnet_ops == SelectSeq(u.ops, LAMBDA o : o.op = "create_lport")
    IN /\ Len(last.units) = 1
       /\ u.ops[1] = CreateLswitchOp(OvnName[n], net.name)
       /\ Len(u.ops) = 1 + Len(localnet_ops)
       /\ Len(localnet_ops) = IF physnet # NoValue THEN 1 ELSE 0
       /\ \A i \in 1..Len(localnet_ops) :
            /\ localnet_ops[i].type = "localnet"
            /\ localnet_ops[i].lswitch = OvnName[n]
            /\ localnet_ops[i].network_name = physnet
       /\ u.committed =>
            /\ HasLswitch(lswitches, n)
            /\ (\E lp \in localnets : lp.lswitch = OvnName[n] /\ lp.type = "localnet")
                 <=> physnet # NoValue
       /\ ~u.committed =>
            /\ last.status = "txn_failed"
            /\ ~HasLswitch(lswitches, n)
            /\ ~\E lp \in localnets : lp.lswitch = OvnName[n]
            /\ lswitches = preNet.lswitches
            /\ localnets = preNet.localnets

\* A provider network whose create transaction the backend rejected.
C20_Witness ==
  /\ last.ev = "create_network"
  /\ networks[last.port].physical_network = "physnet1"
  /\ Len(last.units) = 1
  /\ Len(last.units[1].ops) = 2
  /\ ~last.units[1].committed
  /\ ~HasLswitch(lswitches, last.port)

\* The groups whose effective membership the observed event may have
\* changed: the groups of a created or deleted port, the groups an updated
\* port left or joined and, if its fixed IPs differ, those it stays in, and
\* the remote group of a created or deleted rule.
MembershipChanged ==
  CASE last.ev = "create_port" -> ports[last.port].security_groups
    [] last.ev = "delete_port" -> last.orig.security_groups
    [] last.ev = "update_port" ->
         ChangedGroups \cup (IF last.orig.fixed_ips # ports[last.port].fixed_ips
                             THEN RemainingGroups ELSE {})
    [] last.ev \in {"create_rule", "delete_rule"} ->
         {RuleUniverse[last.rule].remote_group_id} \ {NoValue}
    [] OTHER -> {}

\* The observed pass fully recomputed group sg: one of its committed
\* transactions is a self-diffing update_acls of sg over all ports in want.
FullyRecomputed(sg, want) ==
  \E i \in 1..Len(last.units) :
    /\ last.units[i].kind = "update_acls" /\ last.units[i].sg = sg
    /\ last.units[i].need_compare /\ last.units[i].committed
    /\ want \subseteq Range(last.units[i].ports)

\* C21: every event that may change a group's effective membership (port
\* attach or detach, fixed-IP change, creation or deletion of a rule naming
\* the group as remote group) is followed within the same pass, when no
\* transaction is rejected, by a full recompute of all ports of every group
\* whose rules name the changed group as remote group.
C21_MembershipChangeRecomputed ==
  (last.ev # "none" /\ last.status = "ok") =>
    \A g \in MembershipChanged :
      \A sg \in GetReferingSgIds(last.given, g) :
        FullyRecomputed(sg, Members(sg))

\* What C22 says of the observed pass, for the passes in E: a rule create or
\* delete is one update_acls of the rule's group without self-diff that
\* carries, for each port of the group, the one ACL the single-rule
\* compiler gives, added on create and removed on delete, and leaves every
\* port outside the group as it was; a security-group update is one
\* self-diffing update_acls over the full compile of each port of the group.
StrategySelection(E) ==
  /\ (last.ev \in {"create_rule", "delete_rule"} /\ E) =>
       /\ Len(last.units) = 1
       /\ last.compiled = <<>>
       /\ LET u == last.units[1]
          IN /\ u.kind = "update_acls" /\ u.sg = last.sg /\ u.committed
             /\ ~u.need_compare
             /\ u.is_add_acl = (last.ev = "create_rule")
             /\ Range(u.ports) = Members(last.sg)
             /\ Len(u.ops) = Cardinality(Members(last.sg))
             /\ \A i \in 1..Len(u.ops) :
                  /\ u.ops[i].op = IF last.ev = "create_rule"
                                   THEN "add_acl" ELSE "del_acl"
                  /\ u.ops[i].lport = u.ports[i]
                  /\ u.ops[i].acls = Range(RuleAcl(u.ports[i], last.rule))
                  /\ u.ops[i].acls # {}
       /\ \A p \in Members(last.sg) :
            IF last.ev = "create_rule"
            THEN Range(RuleAcl(p, last.rule)) \subseteq acls
            ELSE Range(RuleAcl(p, last.rule)) \cap acls = {}
       /\ \A p \in Live \ Members(last.sg) : BackendAcls(p) = PreAcls(p)
  /\ (last.ev = "update_sg" /\ E) =>
       /\ Len(last.units) = 1
       /\ LET u == last.units[1]
          IN /\ u.kind = "update_acls" /\ u.sg = last.sg /\ u.committed
             /\ u.need_compare
             /\ Range(u.ports) = Members(last.sg)
             /\ last.compiled = u.ports
             /\ Len(u.ports) = Cardinality(Members(last.sg))
       /\ \A p \in Members(last.sg) : BackendAcls(p) = Compiled(p)
       /\ \A p \in Live \ Members(last.sg) : BackendAcls(p) = PreAcls(p)

\* C22: in every pass in which the backend rejects no transaction, rule
\* create and delete use the targeted strategy (the single-rule compiler
\* once per port of the rule's owning group, self-diff disabled, the ACL
\* added on create and removed on delete, no port outside the group
\* touched) and a security-group update uses the full recompute with
\* self-diff for all ports of that group.
C22_StrategySelection == StrategySelection(last.status # "txn_failed")

\* The store before the observed port event.
StoreBefore == Store([ports EXCEPT ![last.port] = last.orig], rules)

\* The observed event created, updated or deleted a port that had and has no
\* fixed IP, and changed the groups it is attached to.
NoIpMembershipEvent ==
  /\ last.ev \in {"create_port", "update_port", "delete_port"}
  /\ last.orig.fixed_ips = <<>> /\ ports[last.port].fixed_ips = <<>>
  /\ last.orig.security_groups # ports[last.port].security_groups

\* C23: when a port without fixed IPs (before and after) is created in,
\* attached to or detached from a group, the full compile of every other
\* port is the same before and after the event, so that skipping the
\* cascade leaves no other port's ACLs stale.
C23_NoIpSkipSafe ==
  NoIpMembershipEvent =>
    \A q \in Live \ {last.port} :
      CompiledList(StoreBefore, q) = CompiledList(St, q)

\* C24: after a port create or update the triggering port is in the port
\* list of no cascaded recompute, and no cascaded transaction carries an
\* operation on it: it is compiled once, for the event's own transaction,
\* also when it is a member of a referencing group.
C24_TriggerExcluded ==
  (last.ev \in {"create_port", "update_port"} /\ last.units # <<>>) =>
    /\ last.units[1].kind = last.ev
    /\ last.units[1].ports = <<last.port>>
    /\ Count(last.compiled, last.port) = 1
    /\ last.compiled[1] = last.port
    /\ \A i \in 2..Len(last.units) :
         /\ last.units[i].kind = "update_acls"
         /\ last.port \notin Range(last.units[i].ports)
         /\ \A j \in 1..Len(last.units[i].ops) :
              last.units[i].ops[j].lport # last.port

\* C24 witness: the created or updated port is a member of a group that the
\* cascade recomputed for another of its ports.
C24_Witness ==
  /\ last.ev \in {"create_port", "update_port"} /\ last.status = "ok"
  /\ \E i \in 2..Len(last.units) :
       /\ last.port \in Members(last.units[i].sg)
       /\ last.units[i].ports # <<>>
       /\ last.units[i].committed

\* C25: within one pass (the triggering event and its whole cascade) each
\* security-group id, each group-membership key and each subnet id is
\* fetched from the store at most once.
C25_FetchedOncePerPass ==
  \A i, j \in 1..Len(last.fetched) :
    last.fetched[i] = last.fetched[j] => i = j

\* Cache new holds every entry of cache old, with the same value.
Extends(old, new) ==
  \A k \in DOMAIN old : k \in DOMAIN new /\ new[k] = old[k]

\* The same of the three caches of two pass contexts.
CachesExtend(c0, c1) ==
  /\ Extends(c0.sg_cache, c1.sg_cache)
  /\ Extends(c0.sg_ports_cache, c1.sg_ports_cache)
  /\ Extends(c0.subnet_cache, c1.subnet_cache)

\* Every entry of the three caches holds what the store st gives for its
\* key.
CachesHoldFetched(st, sg, sg_ports, subnet) ==
  /\ \A k \in DOMAIN sg : sg[k] = GetSecurityGroup(st, k)
  /\ \A k \in DOMAIN sg_ports : sg_ports[k] = GetPortSecurityGroupBindings(st, k)
  /\ \A k \in DOMAIN subnet : subnet[k] = GetSubnet(st, k)

\* The caches the own compile of the created or updated port filled.
OwnCompileCaches == AddAcls(last.given, NewContext({}, {}, 0),
                            PortDict(last.given, last.port)).c

C27_PrimaryRejected ==
  (/\ last.ev \in {"create_port", "update_port", "delete_port"}
   /\ last.units # <<>>
   /\ ~last.units[1].committed) =>
    /\ Len(last.units) = 1
    /\ last.units[1].kind = last.ev
    /\ last.status = "txn_failed"
    /\ last.refreshed = <<>>
    /\ acls = pre /\ lports = preLports

\* C27 witness: the rejected transaction is that of a port with a fixed IP
\* in a group that other ports' rules name, so that a cascade was due.
C27_Witness ==
  /\ last.ev \in {"create_port", "update_port", "delete_port"}
  /\ last.status = "txn_failed"
  /\ Len(last.units) = 1
  /\ last.orig.fixed_ips # <<>> \/ ports[last.port].fixed_ips # <<>>
  /\ \E g \in last.orig.security_groups \cup ports[last.port].security_groups :
       \E sg \in GetReferingSgIds(last.given, g) : Members(sg) \ {last.port} # {}

\* The backend after the committed ones of a pass's transactions, applied
\* in the order of their submission.
RECURSIVE ApplyCommitted(_, _)
ApplyCommitted(be, units) ==
  IF units = <<>> THEN be
  ELSE ApplyCommitted(IF Head(units).committed
                      THEN ApplyOps(be, Head(units).ops) ELSE be,
                      Tail(units))

\* The groups whose rules name a group the port of the observed event is or
\* was attached to.
ReferingToPortGroups ==
  UNION {GetReferingSgIds(last.given, g) :
           g \in last.orig.security_groups \cup ports[last.port].security_groups}

\* C28: the cascade of a port event is not atomic as a whole: each
\* referencing group is refreshed in a transaction of its own after the
\* primary transaction has committed, and when the backend rejects the
\* transaction of the k-th group, the primary transaction and the k-1
\* earlier refreshes stay applied, no further group is refreshed and the
\* failure propagates.
C28_CascadePartial ==
  (/\ last.ev \in {"create_port", "update_port", "delete_port"}
   /\ Len(last.units) > 1) =>
    LET n == Len(last.units)
        be == ApplyCommitted([lports |-> preLports, acls |-> pre,
                              lswitches |-> lswitches, localnets |-> localnets,
                              error |-> FALSE], last.units)
    IN /\ last.units[1].kind = last.ev
       /\ \A i \in 1..(n - 1) : last.units[i].committed
       /\ \A i \in 2..n :
            /\ last.units[i].kind = "update_acls"
            /\ last.units[i].need_compare
            /\ last.units[i].sg \in ReferingToPortGroups
       /\ last.units[n].committed <=> last.status = "ok"
       /\ ~last.units[n].committed => last.status = "txn_failed"
       /\ acls = be.acls /\ lports = be.lports

\* C28 witness: the transaction of the second referencing group is rejected
\* after the primary transaction and the first group's refresh changed the
\* backend.
C28_Witness ==
  /\ last.ev \in {"create_port", "update_port", "delete_port"}
  /\ Len(last.units) = 3
  /\ last.status = "txn_failed"
  /\ ~last.units[3].committed /\ last.units[3].ops # <<>>
  /\ last.units[2].committed /\ last.units[2].ops # <<>>
  /\ last.units[2].sg # last.units[3].sg
  /\ acls # pre

\* The cache keys the full compile of port q reads from store st: the
\* subnets of its fixed IPs, its groups, the membership of the remote group
\* of each of their rules, and the subnets of the other members' fixed IPs.
NeededKeys(st, q) ==
  LET port == PortDict(st, q)
      rs == {r \in st.rules :
               /\ RuleUniverse[r].security_group_id \in port.security_groups
               /\ RuleUniverse[r].remote_group_id # NoValue}
      peers == UNION {Range(GetPortSecurityGroupBindings(
                              st, RuleUniverse[r].remote_group_id)) : r \in rs}
                 \ {q}
      SubnetKeys(p) ==
        {<<"subnet", PortDict(st, p).fixed_ips[i].subnet_id>> :
           i \in 1..Len(PortDict(st, p).fixed_ips)}
  IN IF port.security_groups = {} THEN {}
     ELSE SubnetKeys(q)
            \cup {<<"sg", g>> : g \in port.security_groups}
            \cup {<<"sg_ports", RuleUniverse[r].remote_group_id>> : r \in rs}
            \cup UNION {SubnetKeys(p) : p \in peers}

\* A unit whose ACLs the full compiler produces.
FullCompileUnit(u) ==
  \/ u.kind \in {"create_port", "update_port"}
  \/ u.kind = "update_acls" /\ u.need_compare

\* C29: in every unit of a pass (port create, port update, each group
\* refresh) all ACL compilations of the unit's ports complete before the
\* unit's transaction is submitted, none is made after the last submission,
\* and every cache key a compilation reads has been populated from the
\* store when that compilation completes.
C29_CompileBeforeSubmit ==
  last.ev # "none" =>
    /\ \A i \in 1..Len(last.units) :
         LET lo == IF i = 1 THEN 0 ELSE last.units[i - 1].at
             hi == last.units[i].at
         IN /\ lo <= hi /\ hi <= Len(last.compiled)
            /\ SubSeq(last.compiled, lo + 1, hi) =
                 IF FullCompileUnit(last.units[i])
                 THEN last.units[i].ports ELSE <<>>
    /\ last.units # <<>> =>
         last.units[Len(last.units)].at = Len(last.compiled)
    /\ Len(last.compiled_at) = Len(last.compiled)
    /\ \A j \in 1..Len(last.compiled) :
         /\ last.compiled_at[j] <= Len(last.fetched)
         /\ NeededKeys(last.given, last.compiled[j])
              \subseteq {last.fetched[k] : k \in 1..last.compiled_at[j]}

\* C29 witness: a port create or update that compiled the port, committed
\* its transaction and then refreshed a group of two or more other ports,
\* each compile reading keys fetched from the store.
C29_Witness ==
  /\ last.ev \in {"create_port", "update_port"} /\ last.status = "ok"
  /\ Len(last.units) > 1
  /\ last.units[1].at = 1
  /\ \E i \in 2..Len(last.units) :
       /\ Len(last.units[i].ports) > 1
       /\ last.units[i].at = last.units[i - 1].at + Len(last.units[i].ports)
  /\ NeededKeys(last.given, last.port) # {}
  /\ \A j \in 1..Len(last.compiled) :
       NeededKeys(last.given, last.compiled[j]) # {}

\* The network of the observed network event before and after it.
OrigNetwork == preNet.networks[last.port]
NewNetwork == networks[last.port]

\* The positions of the observed pass's transactions of one kind.
UnitsOfKind(kind) ==
  {i \in 1..Len(last.units) : last.units[i].kind = kind}

\* C30: on a network update the name tag of the network's switch is
\* rewritten iff the network's name differs from the original name; QoS
\* options are pushed, in one transaction that follows, to the network's
\* ports that the policy's rules apply to iff the QoS policy id is present
\* and differs from the original one; and when neither changed no backend
\* operation is performed.
C30_NetworkUpdateFrame ==
  last.ev = "update_network" =>
    LET n == last.port
        nameChanged == NewNetwork.name # OrigNetwork.name
        qosChanged == /\ NewNetwork.qos_policy_id # QosAbsent
                      /\ NewNetwork.qos_policy_id # OrigNetwork.qos_policy_id
        enrolled == {p \in Live :
                       /\ PortDict(St, p).network_id = n
                       /\ \/ NewNetwork.qos_policy_id = NoValue
                          \/ PortQosPolicy[p] \in {NoValue, NewNetwork.qos_policy_id}}
    IN /\ nameChanged <=> UnitsOfKind("set_network_name") = {1}
       /\ ~nameChanged =>
            UnitsOfKind("set_network_name") = {} /\ lswitches = preNet.lswitches
       /\ nameChanged =>
            /\ last.units[1].ops = << SetLswitchExtIdOp(OvnName[n], NewNetwork.name) >>
            /\ last.units[1].committed =>
                 [name |-> OvnName[n], external_ids |-> NewNetwork.name] \in lswitches
            /\ ~last.units[1].committed =>
                 /\ Len(last.units) = 1 /\ lswitches = preNet.lswitches
       /\ UnitsOfKind("update_network_qos") # {} => qosChanged
       /\ (qosChanged /\ \A i \in 1..Len(last.units) : last.units[i].committed)
            => UnitsOfKind("update_network_qos") = {Len(last.units)}
       /\ (qosChanged /\ ~nameChanged) => UnitsOfKind("update_network_qos") = {1}
       /\ \A i \in UnitsOfKind("update_network_qos") :
            /\ Range(last.units[i].ports) = enrolled
            /\ Len(last.units[i].ops) = Cardinality(enrolled)
            /\ \A j \in 1..Len(last.units[i].ops) :
                 last.units[i].ops[j] =
                   SetLportOptionsOp(last.units[i].ports[j],
                                     QosGetOvnOptions(NewNetwork.qos_policy_id))
       /\ Len(last.units) <= 2
       /\ (~nameChanged /\ ~qosChanged) =>
            /\ last.units = <<>> /\ last.status = "ok"
       /\ localnets = preNet.localnets /\ acls = pre /\ lports = preLports
       /\ {sw.name : sw \in lswitches} = {sw.name : sw \in preNet.lswitches}

\* C30 witness: an update that changes both the name and the QoS policy of
\* a network with two ports, one of which has a policy of its own.
C30_Witness ==
  /\ last.ev = "update_network" /\ last.status = "ok"
  /\ NewNetwork.name # OrigNetwork.name
  /\ Len(last.units) = 2
  /\ last.units[2].kind = "update_network_qos"
  /\ last.units[2].ports = <<"p1">>
  /\ Cardinality(Live) = 2
  /\ DOMAIN last.units[2].ops[1].options # {}

\* The DHCP-allow entries of the full compile of port p, in list order.
DhcpEntries(p) ==
  SelectSeq(CompiledList(St, p), LAMBDA a : a.action = "allow")

\* The fixed IPs of port p whose subnet has IP version v, in list order.
FixedIpsOfVersion(p, v) ==
  SelectSeq(ports[p].fixed_ips, LAMBDA ip : Subnets[ip.subnet_id].ip_version = v)

\* C31: the full compile of a port with at least one attached group has one
\* DHCP-allow entry for each fixed IP whose subnet has IP version 4, for the
\* subnet of that fixed IP, and none for a fixed IP whose subnet has IP
\* version 6; a port with no fixed IPs gets no DHCP-allow entry.
C31_DhcpException ==
  \A p \in Live :
    ports[p].security_groups # {} =>
      LET v4 == FixedIpsOfVersion(p, 4)
          v6 == FixedIpsOfVersion(p, 6)
      IN /\ Len(DhcpEntries(p)) = Len(v4)
         /\ \A i \in 1..Len(v4) :
              /\ DhcpEntries(p)[i].lport = p
              /\ DhcpEntries(p)[i].direction = "to-lport"
              /\ Subnets[v4[i].subnet_id].cidr \in Range(DhcpEntries(p)[i].match)
              /\ "udp" \in Range(DhcpEntries(p)[i].match)
         /\ \A i \in 1..Len(v6) : \A j \in 1..Len(DhcpEntries(p)) :
              Subnets[v6[i].subnet_id].cidr \notin Range(DhcpEntries(p)[j].match)
         /\ ports[p].fixed_ips = <<>> => DhcpEntries(p) = <<>>

\* C31 witness: three ports with a group, one with an IPv4 and an IPv6
\* fixed IP, one with no fixed IP, and one with an IPv4 fixed IP only.
C31_Witness ==
  /\ \E p \in Live :
       /\ ports[p].security_groups # {}
       /\ FixedIpsOfVersion(p, 4) # <<>> /\ FixedIpsOfVersion(p, 6) # <<>>
       /\ Len(DhcpEntries(p)) = 1
  /\ \E p \in Live :
       ports[p].security_groups # {} /\ ports[p].fixed_ips = <<>>
  /\ \E p \in Live :
       /\ ports[p].security_groups # {}
       /\ FixedIpsOfVersion(p, 4) # <<>> /\ FixedIpsOfVersion(p, 6) = <<>>
====
